---- MODULE Spec2Model ----
(***************************************************************************)
(* The paint session of openrct2/paint/Paint.cpp: the creation operations  *)
(* that fill the session pool and the quadrant table, and the arranger     *)
(* that merges the quadrants into one chain and reorders it.               *)
(***************************************************************************)
EXTENDS Integers, Sequences, FiniteSets, TLC

VARIABLES
    CurrentRotation,    \* session->CurrentRotation
    DPI,                \* session->DPI, the clip rectangle and the zoom level
    InteractionType,    \* session->InteractionType
    pool,               \* session->PaintStructs, the entries in allocation order
    Quadrants,          \* session->Quadrants, kept as a map of the non-null heads
    QuadrantBackIndex,  \* session->QuadrantBackIndex
    QuadrantFrontIndex, \* session->QuadrantFrontIndex
    LastPS,             \* session->LastPS
    LastAttachedPS,     \* session->LastAttachedPS
    PSStringHead,       \* session->PSStringHead
    LastPSString,       \* session->LastPSString
    PaintHeadNext,      \* session->PaintHead.next_quadrant_ps
    pc,                 \* "generate", then "arranged", then "drawn"
    arrLog,             \* what the arranger did, in order (history)
    arrTimeout,         \* the arranger ran out of its step budget (history)
    blits,              \* what PaintDrawStructs has drawn, in order
    peer,               \* a second paint_session, with its rotation, DPI and PaintHead
    calls,              \* the creation calls made on each of the two sessions (history)
    boxes,              \* two paint_struct_bound_box values, or none
    dominance,          \* CheckBoundingBox of the first and the second, and of the second
                        \* and the first, once it has been called
    scan,               \* where PaintSessionGenerate is: "idle", "loop" or "done"
    mapTile,            \* PaintSessionGenerate's mapTile
    num_vertical_quadrants, \* PaintSessionGenerate's loop counter
    emitted,            \* the calls PaintSessionGenerate has made to the two emitters, in order
    capacity,           \* session->PaintStructs.capacity(), the entries the arena holds
    texts,              \* what PaintDrawMoneyStructs has drawn, in order
    gScenarioObjectiveType,      \* the scenario's objective type
    gScenarioObjectiveNumGuests, \* uint16_t
    gScenarioObjectiveYear,      \* uint8_t
    gScenarioObjectiveCurrency,  \* money32
    gameStateMutable,   \* whether ThrowIfGameStateNotMutable() returns
    lastSet             \* the last setter a script has called, its value, whether it
                        \* threw, and the objective it was called on (history)

sessionVars == <<pool, Quadrants, QuadrantBackIndex, QuadrantFrontIndex, LastPS,
                 LastAttachedPS, PSStringHead, LastPSString>>
arrVars == <<PaintHeadNext, arrLog, arrTimeout>>
viewVars == <<CurrentRotation, DPI, InteractionType>>
drawVars == <<blits, texts>>
peerVars == <<peer, calls>>
boxVars == <<boxes, dominance>>
scanVars == <<scan, mapTile, num_vertical_quadrants, emitted>>
arenaVars == <<capacity>>
scenarioVars == <<gScenarioObjectiveType, gScenarioObjectiveNumGuests, gScenarioObjectiveYear,
                  gScenarioObjectiveCurrency, gameStateMutable, lastSet>>
vars == <<CurrentRotation, DPI, InteractionType, blits, pool, Quadrants, QuadrantBackIndex, QuadrantFrontIndex,
          LastPS, LastAttachedPS, PSStringHead, LastPSString, PaintHeadNext, pc, arrLog,
          arrTimeout, peer, calls, boxes, dominance, scan, mapTile, num_vertical_quadrants,
          emitted, capacity, texts, gScenarioObjectiveType, gScenarioObjectiveNumGuests,
          gScenarioObjectiveYear, gScenarioObjectiveCurrency, gameStateMutable, lastSet>>

(***************************************************************************)
(* Bounds of the model.                                                    *)
(***************************************************************************)
\* Capacity of the session pool (PaintStructs.capacity(), 4000 in the program).
MaxEntries == 3

\* The attach calls made on one root.
MaxAttached == 3

(***************************************************************************)
(* Program constants.                                                      *)
(***************************************************************************)
NULL == 0
HEAD == -1
Indeterminate == -2
MAX_PAINT_QUADRANTS == 512
\* The empty value of QuadrantBackIndex.  The program's is 2^32 - 1; the model
\* checker's integers end at 2^31 - 1, which like it is above every index.
UINT32_MAX == 2147483647
PAINT_QUADRANT_FLAG_IDENTICAL == 1
PAINT_QUADRANT_FLAG_NEXT == 2
PAINT_QUADRANT_FLAG_BIGGER == 128
VIEWPORT_INTERACTION_ITEM_SPRITE == 2
VIEWPORT_INTERACTION_ITEM_RIDE == 3

Rotations == 0 .. 3

(***************************************************************************)
(* Integer helpers.                                                        *)
(***************************************************************************)
Min(a, b) == IF a <= b THEN a ELSE b
Max(a, b) == IF a >= b THEN a ELSE b

\* static_cast<int16_t>(v)
Int16(v) == ((v + 32768) % 65536) - 32768

\* C++ integer division, which truncates toward zero.
TruncDiv(a, b) == IF a >= 0 THEN a \div b ELSE -((-a) \div b)

\* std::clamp(v, lo, hi)
Clamp(v, lo, hi) == IF v < lo THEN lo ELSE IF v > hi THEN hi ELSE v

(***************************************************************************)
(* Coordinates are tuples <<x, y>> and <<x, y, z>>.                        *)
(***************************************************************************)
\* CoordsXY::Rotate(direction)
Rotate(c, direction) ==
    CASE direction % 4 = 0 -> <<c[1], c[2]>>
      [] direction % 4 = 1 -> <<c[2], -c[1]>>
      [] direction % 4 = 2 -> <<-c[1], -c[2]>>
      [] direction % 4 = 3 -> <<-c[2], c[1]>>

\* translate_3d_to_2d_with_z(rotation, pos)
translate_3d_to_2d_with_z(rotation, pos) ==
    LET r == Rotate(<<pos[1], pos[2]>>, rotation)
    IN  <<r[2] - r[1], ((r[1] + r[2]) \div 2) - pos[3]>>

\* session->SpritePosition, which the emitters set before they add primitives.
SpritePosition == <<128, 128>>

\* gfx_get_g1_element(image): the image's metadata; is_null stands for nullptr.
gfx_get_g1_element(image) ==
    IF image = 0 THEN [is_null |-> TRUE, x_offset |-> 0, y_offset |-> 0, width |-> 0, height |-> 0]
    ELSE IF image = 2
         THEN [is_null |-> FALSE, x_offset |-> 3, y_offset |-> -5, width |-> 1, height |-> 2]
    ELSE [is_null |-> FALSE, x_offset |-> -8, y_offset |-> -8, width |-> 16, height |-> 16]

(***************************************************************************)
(* CalculatePositionHash and the quadrant insertion.                       *)
(***************************************************************************)
\* A hash that adds 0x2000 at rotation 2 as it does at rotations 1 and 3.
CalculatePositionHash_OneOffset(bounds, rotation) ==
    LET pos == Rotate(<<Int16(bounds.x), Int16(bounds.y)>>, rotation)
        px == CASE rotation = 0 -> pos[1]
                [] rotation \in {1, 2, 3} -> pos[1] + 8192
    IN  px + pos[2]

\* Lines 58-75.
CalculatePositionHash(bounds, rotation) ==
    LET pos == Rotate(<<Int16(bounds.x), Int16(bounds.y)>>, rotation)
        px == CASE rotation = 0 -> pos[1]
                [] rotation \in {1, 3} -> pos[1] + 8192
                [] rotation = 2 -> pos[1] + 16384
    IN  px + pos[2]

\* An index that is not clamped to the table.
PaintQuadrantIndex_Unclamped(bounds, rotation) ==
    TruncDiv(CalculatePositionHash(bounds, rotation), 32)

\* The index PaintSessionAddPSToQuadrant gives the primitive.
PaintQuadrantIndex(bounds, rotation) ==
    Clamp(TruncDiv(CalculatePositionHash(bounds, rotation), 32), 0, MAX_PAINT_QUADRANTS - 1)

\* session->Quadrants[i]
QuadrantAt(q, i) == IF i \in DOMAIN q THEN q[i] ELSE NULL

\* A back index that follows the latest insertion.
NewBackIndex_Latest(old, idx) == idx

\* quadrant->QuadrantBackIndex = std::min(...)
NewBackIndex(old, idx) == Min(old, idx)

\* quadrant->QuadrantFrontIndex = std::max(...)
NewFrontIndex(old, idx) == Max(old, idx)

(***************************************************************************)
(* ImageWithinDPI, RotateBoundBoxSize and the builder sub_9819_c.          *)
(***************************************************************************)
\* A test that lets through an image that only touches the clip rectangle.
ImageWithinDPI_Touching(imagePos, g1, dpi) ==
    LET left == imagePos[1] + g1.x_offset
        bottom == imagePos[2] + g1.y_offset
        right == left + g1.width
        top == bottom + g1.height
    IN  IF right < dpi.x THEN FALSE
        ELSE IF top < dpi.y THEN FALSE
        ELSE IF left > dpi.x + dpi.width THEN FALSE
        ELSE IF bottom > dpi.y + dpi.height THEN FALSE
        ELSE TRUE

ImageWithinDPI(imagePos, g1, dpi) ==
    LET left == imagePos[1] + g1.x_offset
        bottom == imagePos[2] + g1.y_offset
        right == left + g1.width
        top == bottom + g1.height
    IN  IF right <= dpi.x THEN FALSE
        ELSE IF top <= dpi.y THEN FALSE
        ELSE IF left >= dpi.x + dpi.width THEN FALSE
        ELSE IF bottom >= dpi.y + dpi.height THEN FALSE
        ELSE TRUE

RotateBoundBoxSize(bbSize, rotation) ==
    CASE rotation = 0 -> LET r == Rotate(<<bbSize[1] - 1, bbSize[2] - 1>>, 0)
                         IN  <<r[1], r[2], bbSize[3]>>
      [] rotation = 1 -> LET r == Rotate(<<bbSize[1] - 1, bbSize[2]>>, 3)
                         IN  <<r[1], r[2], bbSize[3]>>
      [] rotation = 2 -> LET r == Rotate(<<bbSize[1], bbSize[2]>>, 2)
                         IN  <<r[1], r[2], bbSize[3]>>
      [] rotation = 3 -> LET r == Rotate(<<bbSize[1], bbSize[2] - 1>>, 1)
                         IN  <<r[1], r[2], bbSize[3]>>

\* session->NoPaintStructsAvailable()
NoPaintStructsAvailable(p) == Len(p) >= capacity

\* The screen position the builder computes for an offset.
ImagePos(rotation, offset) ==
    LET swappedRotation == (rotation * 3) % 4
        r == Rotate(<<offset[1], offset[2]>>, swappedRotation)
        swappedRotCoord == <<r[1] + SpritePosition[1], r[2] + SpritePosition[2], offset[3]>>
    IN  translate_3d_to_2d_with_z(rotation, swappedRotCoord)

\* A quadrant_flags field nothing has set yet.
UnsetFlags == {Indeterminate}

\* The paint_struct the builder fills in.  quadrant_index, quadrant_flags and
\* next_quadrant_ps are left unset by the builder.
BuildPS(rotation, inp) ==
    LET swappedRotation == (rotation * 3) % 4
        imagePos == ImagePos(rotation, inp.offset)
        ro == Rotate(<<inp.boundBoxOffset[1], inp.boundBoxOffset[2]>>, swappedRotation)
        rs == RotateBoundBoxSize(inp.boundBoxSize, rotation)
    IN  [kind |-> "ps", image_id |-> inp.image_id, x |-> imagePos[1], y |-> imagePos[2],
         sprite_type |-> InteractionType,
         bounds |-> [x |-> ro[1] + SpritePosition[1],
                     y |-> ro[2] + SpritePosition[2],
                     z |-> inp.boundBoxOffset[3],
                     x_end |-> rs[1] + ro[1] + SpritePosition[1],
                     y_end |-> rs[2] + ro[2] + SpritePosition[2],
                     z_end |-> rs[3] + inp.boundBoxOffset[3]],
         quadrant_index |-> Indeterminate, quadrant_flags |-> UnsetFlags,
         attached_ps |-> NULL, children |-> NULL, next_quadrant_ps |-> Indeterminate,
         next |-> NULL]

\* std::nullopt
nullopt == [has_value |-> FALSE]

\* A builder that does not look at the pool.
sub_9819_c_NoCapacityCheck(p, rotation, dpi, inp) ==
    IF gfx_get_g1_element(inp.image_id).is_null THEN nullopt
    ELSE IF ~ImageWithinDPI(ImagePos(rotation, inp.offset),
                            gfx_get_g1_element(inp.image_id), dpi) THEN nullopt
    ELSE [has_value |-> TRUE, value |-> BuildPS(rotation, inp)]

\* sub_9819_c: the std::optional<paint_struct> it returns.
sub_9819_c(p, rotation, dpi, inp) ==
    IF NoPaintStructsAvailable(p) THEN nullopt
    ELSE IF gfx_get_g1_element(inp.image_id).is_null THEN nullopt
    ELSE IF ~ImageWithinDPI(ImagePos(rotation, inp.offset),
                            gfx_get_g1_element(inp.image_id), dpi) THEN nullopt
    ELSE [has_value |-> TRUE, value |-> BuildPS(rotation, inp)]

(***************************************************************************)
(* The session as a record, and the creation operations as functions from  *)
(* a session to the session they leave and the value they return.          *)
(***************************************************************************)
Session ==
    [pool |-> pool, Quadrants |-> Quadrants, QuadrantBackIndex |-> QuadrantBackIndex,
     QuadrantFrontIndex |-> QuadrantFrontIndex, LastPS |-> LastPS,
     LastAttachedPS |-> LastAttachedPS, PSStringHead |-> PSStringHead,
     LastPSString |-> LastPSString]

\* session->AllocateRootPaintEntry(entry): the new entry becomes LastPS.
AllocateRootPaintEntry(s, entry) ==
    [s EXCEPT !.pool = Append(s.pool, entry), !.LastPS = Len(s.pool) + 1]

\* session->AllocateAttachedPaintEntry(entry): the new entry becomes LastAttachedPS.
AllocateAttachedPaintEntry(s, entry) ==
    [s EXCEPT !.pool = Append(s.pool, entry), !.LastAttachedPS = Len(s.pool) + 1]

\* session->AllocatePaintString(entry): appended to the text chain.
AllocatePaintString(s, entry) ==
    LET id == Len(s.pool) + 1
        p1 == Append(s.pool, entry)
    IN  IF s.LastPSString = NULL
        THEN [s EXCEPT !.pool = p1, !.PSStringHead = id, !.LastPSString = id]
        ELSE [s EXCEPT !.pool = [p1 EXCEPT ![s.LastPSString].next = id],
                       !.LastPSString = id]

\* An insertion at the tail of the quadrant's list instead of its head.
PaintSessionAddPSToQuadrant_AtTail(s, rotation, ps) ==
    LET paintQuadrantIndex == PaintQuadrantIndex(s.pool[ps].bounds, rotation)
        old == QuadrantAt(s.Quadrants, paintQuadrantIndex)
        last == CHOOSE e \in 1 .. Len(s.pool) :
                    /\ e # ps
                    /\ s.pool[e].kind = "ps"
                    /\ s.pool[e].quadrant_index = paintQuadrantIndex
                    /\ s.pool[e].next_quadrant_ps = NULL
    IN  [s EXCEPT !.pool = IF old = NULL
                           THEN [@ EXCEPT ![ps].quadrant_index = paintQuadrantIndex,
                                          ![ps].next_quadrant_ps = NULL]
                           ELSE [@ EXCEPT ![ps].quadrant_index = paintQuadrantIndex,
                                          ![ps].next_quadrant_ps = NULL,
                                          ![last].next_quadrant_ps = ps],
                  !.Quadrants = [i \in DOMAIN @ \cup {paintQuadrantIndex} |->
                                     IF i = paintQuadrantIndex /\ old = NULL THEN ps ELSE @[i]],
                  !.QuadrantBackIndex = NewBackIndex(@, paintQuadrantIndex),
                  !.QuadrantFrontIndex = NewFrontIndex(@, paintQuadrantIndex)]

\* An insertion that makes ps the head of the quadrant's list without linking
\* the old list behind it.
PaintSessionAddPSToQuadrant_UnlinksOld(s, rotation, ps) ==
    LET paintQuadrantIndex == PaintQuadrantIndex(s.pool[ps].bounds, rotation)
    IN  [s EXCEPT !.pool = [@ EXCEPT ![ps].quadrant_index = paintQuadrantIndex,
                                     ![ps].next_quadrant_ps = NULL],
                  !.Quadrants = [i \in DOMAIN @ \cup {paintQuadrantIndex} |->
                                     IF i = paintQuadrantIndex THEN ps ELSE @[i]],
                  !.QuadrantBackIndex = NewBackIndex(@, paintQuadrantIndex),
                  !.QuadrantFrontIndex = NewFrontIndex(@, paintQuadrantIndex)]

\* An insertion into one quadrant table that all sessions share.
PaintSessionAddPSToQuadrant_SharedTable(s, rotation, ps) ==
    LET paintQuadrantIndex == PaintQuadrantIndex(s.pool[ps].bounds, rotation)
    IN  [s EXCEPT !.pool = [@ EXCEPT ![ps].quadrant_index = paintQuadrantIndex,
                                     ![ps].next_quadrant_ps =
                                         QuadrantAt(Quadrants, paintQuadrantIndex)],
                  !.Quadrants = [i \in DOMAIN @ \cup {paintQuadrantIndex} |->
                                     IF i = paintQuadrantIndex THEN ps ELSE @[i]],
                  !.QuadrantBackIndex = NewBackIndex(@, paintQuadrantIndex),
                  !.QuadrantFrontIndex = NewFrontIndex(@, paintQuadrantIndex)]

\* Lines 77-87.
PaintSessionAddPSToQuadrant(s, rotation, ps) ==
    LET paintQuadrantIndex == PaintQuadrantIndex(s.pool[ps].bounds, rotation)
    IN  [s EXCEPT !.pool = [@ EXCEPT ![ps].quadrant_index = paintQuadrantIndex,
                                     ![ps].next_quadrant_ps =
                                         QuadrantAt(s.Quadrants, paintQuadrantIndex)],
                  !.Quadrants = [i \in DOMAIN @ \cup {paintQuadrantIndex} |->
                                     IF i = paintQuadrantIndex THEN ps ELSE @[i]],
                  !.QuadrantBackIndex = NewBackIndex(@, paintQuadrantIndex),
                  !.QuadrantFrontIndex = NewFrontIndex(@, paintQuadrantIndex)]

\* A parent call that takes its pool slot before the builder has accepted
\* the image.
PaintAddImageAsParent_SlotFirst(s, rotation, dpi, inp) ==
    LET s1 == [s EXCEPT !.LastPS = NULL, !.LastAttachedPS = NULL]
        newPS == sub_9819_c(s1.pool, rotation, dpi, inp)
        s2 == AllocateRootPaintEntry(s1, BuildPS(rotation, inp))
    IN  IF NoPaintStructsAvailable(s1.pool) THEN [s |-> s1, ret |-> NULL]
        ELSE IF ~newPS.has_value THEN [s |-> [s2 EXCEPT !.LastPS = NULL], ret |-> NULL]
        ELSE [s |-> PaintSessionAddPSToQuadrant(s2, rotation, s2.LastPS),
              ret |-> s2.LastPS]

\* A parent call that clears the cursors only once the builder has accepted
\* the image.
PaintAddImageAsParent_KeepsCursors(s, rotation, dpi, inp) ==
    LET newPS == sub_9819_c(s.pool, rotation, dpi, inp)
        s1 == [s EXCEPT !.LastPS = NULL, !.LastAttachedPS = NULL]
    IN  IF ~newPS.has_value THEN [s |-> s, ret |-> NULL]
        ELSE LET s2 == AllocateRootPaintEntry(s1, newPS.value)
             IN  [s |-> PaintSessionAddPSToQuadrant(s2, rotation, s2.LastPS),
                  ret |-> s2.LastPS]

PaintAddImageAsParent(s, rotation, dpi, inp) ==
    LET s1 == [s EXCEPT !.LastPS = NULL, !.LastAttachedPS = NULL]
        newPS == sub_9819_c(s1.pool, rotation, dpi, inp)
    IN  IF ~newPS.has_value THEN [s |-> s1, ret |-> NULL]
        ELSE LET s2 == AllocateRootPaintEntry(s1, newPS.value)
             IN  [s |-> PaintSessionAddPSToQuadrant(s2, rotation, s2.LastPS),
                  ret |-> s2.LastPS]

\* An orphan call that puts its entry in a quadrant, as the parent call does.
PaintAddImageAsOrphan_Bucketed(s, rotation, dpi, inp, g) ==
    LET s1 == [s EXCEPT !.LastPS = NULL, !.LastAttachedPS = NULL]
        ps == sub_9819_c(s1.pool, rotation, dpi, inp)
    IN  IF ~ps.has_value THEN [s |-> s1, ret |-> NULL]
        ELSE LET s2 == AllocateRootPaintEntry(s1, ps.value)
             IN  [s |-> PaintSessionAddPSToQuadrant(s2, rotation, s2.LastPS),
                  ret |-> s2.LastPS]

\* g is the value the unset quadrant_index field happens to hold.
PaintAddImageAsOrphan(s, rotation, dpi, inp, g) ==
    LET s1 == [s EXCEPT !.LastPS = NULL, !.LastAttachedPS = NULL]
        ps == sub_9819_c(s1.pool, rotation, dpi, inp)
    IN  IF ~ps.has_value THEN [s |-> s1, ret |-> NULL]
        ELSE LET s2 == AllocateRootPaintEntry(s1, [ps.value EXCEPT !.quadrant_index = g])
             IN  [s |-> s2, ret |-> s2.LastPS]

\* A child call that reads the parent cursor after the allocation has moved
\* it.
PaintAddImageAsChild_ParentAfterAlloc(s, rotation, dpi, inp, g) ==
    IF s.LastPS = NULL THEN PaintAddImageAsParent(s, rotation, dpi, inp)
    ELSE LET newPS == sub_9819_c(s.pool, rotation, dpi, inp)
         IN  IF ~newPS.has_value THEN [s |-> s, ret |-> NULL]
             ELSE LET s2 == AllocateRootPaintEntry(
                                s, [newPS.value EXCEPT !.quadrant_index = g])
                      parentPS == s2.LastPS
                  IN  [s |-> [s2 EXCEPT !.pool[parentPS].children = s2.LastPS],
                       ret |-> s2.LastPS]

PaintAddImageAsChild(s, rotation, dpi, inp, g) ==
    IF s.LastPS = NULL THEN PaintAddImageAsParent(s, rotation, dpi, inp)
    ELSE LET newPS == sub_9819_c(s.pool, rotation, dpi, inp)
         IN  IF ~newPS.has_value THEN [s |-> s, ret |-> NULL]
             ELSE LET parentPS == s.LastPS
                      s2 == AllocateRootPaintEntry(
                                s, [newPS.value EXCEPT !.quadrant_index = g])
                  IN  [s |-> [s2 EXCEPT !.pool[parentPS].children = s2.LastPS],
                       ret |-> s2.LastPS]

\* The bounds field of the entries that are no paint_struct.
NoBounds == [x |-> 0, y |-> 0, z |-> 0, x_end |-> 0, y_end |-> 0, z_end |-> 0]

\* An attached_paint_struct.
AttachedPS(inp, nextPS) ==
    [kind |-> "attached", image_id |-> inp.image_id, x |-> inp.x, y |-> inp.y,
     bounds |-> NoBounds, quadrant_index |-> NULL, quadrant_flags |-> {},
     attached_ps |-> NULL, children |-> NULL, next_quadrant_ps |-> NULL,
     next |-> nextPS]

PaintAttachToPreviousPS(s, inp) ==
    IF NoPaintStructsAvailable(s.pool) THEN [s |-> s, ret |-> FALSE]
    ELSE LET masterPs == s.LastPS
         IN  IF masterPs = NULL THEN [s |-> s, ret |-> FALSE]
             ELSE LET oldFirstAttached == s.pool[masterPs].attached_ps
                      s2 == AllocateAttachedPaintEntry(s, AttachedPS(inp, oldFirstAttached))
                  IN  [s |-> [s2 EXCEPT !.pool[masterPs].attached_ps = s2.LastAttachedPS],
                       ret |-> TRUE]

\* An attach-to-last-attached that fails when there is no last attached entry.
PaintAttachToPreviousAttach_NoFallback(s, inp) ==
    IF s.LastAttachedPS = NULL THEN [s |-> s, ret |-> FALSE]
    ELSE IF NoPaintStructsAvailable(s.pool) THEN [s |-> s, ret |-> FALSE]
    ELSE LET previousAttachedPS == s.LastAttachedPS
             s2 == AllocateAttachedPaintEntry(s, AttachedPS(inp, NULL))
         IN  [s |-> [s2 EXCEPT !.pool[previousAttachedPS].next = s2.LastAttachedPS],
              ret |-> TRUE]

PaintAttachToPreviousAttach(s, inp) ==
    IF s.LastAttachedPS = NULL THEN PaintAttachToPreviousPS(s, inp)
    ELSE IF NoPaintStructsAvailable(s.pool) THEN [s |-> s, ret |-> FALSE]
    ELSE LET previousAttachedPS == s.LastAttachedPS
             s2 == AllocateAttachedPaintEntry(s, AttachedPS(inp, NULL))
         IN  [s |-> [s2 EXCEPT !.pool[previousAttachedPS].next = s2.LastAttachedPS],
              ret |-> TRUE]

\* A paint_string_struct.
PaintStringStruct(inp) ==
    LET coord == translate_3d_to_2d_with_z(
                     inp.rotation, <<SpritePosition[1], SpritePosition[2], inp.z>>)
    IN  [kind |-> "string", image_id |-> inp.string_id, x |-> coord[1] + inp.offset_x,
         y |-> coord[2], bounds |-> NoBounds, quadrant_index |-> NULL, quadrant_flags |-> {},
         attached_ps |-> NULL, children |-> NULL, next_quadrant_ps |-> NULL,
         next |-> NULL]

PaintFloatingMoneyEffect(s, inp) ==
    IF NoPaintStructsAvailable(s.pool) THEN [s |-> s, ret |-> FALSE]
    ELSE [s |-> AllocatePaintString(s, PaintStringStruct(inp)), ret |-> TRUE]

(***************************************************************************)
(* CheckBoundingBox<rotation>.                                             *)
(***************************************************************************)
CheckBoundingBox(rotation, initialBBox, currentBBox) ==
    CASE rotation = 0 ->
            /\ initialBBox.z_end >= currentBBox.z
            /\ initialBBox.y_end >= currentBBox.y
            /\ initialBBox.x_end >= currentBBox.x
            /\ ~(/\ initialBBox.z < currentBBox.z_end
                 /\ initialBBox.y < currentBBox.y_end
                 /\ initialBBox.x < currentBBox.x_end)
      [] rotation = 1 ->
            /\ initialBBox.z_end >= currentBBox.z
            /\ initialBBox.y_end >= currentBBox.y
            /\ initialBBox.x_end < currentBBox.x
            /\ ~(/\ initialBBox.z < currentBBox.z_end
                 /\ initialBBox.y < currentBBox.y_end
                 /\ initialBBox.x >= currentBBox.x_end)
      [] rotation = 2 ->
            /\ initialBBox.z_end >= currentBBox.z
            /\ initialBBox.y_end < currentBBox.y
            /\ initialBBox.x_end < currentBBox.x
            /\ ~(/\ initialBBox.z < currentBBox.z_end
                 /\ initialBBox.y >= currentBBox.y_end
                 /\ initialBBox.x >= currentBBox.x_end)
      [] rotation = 3 ->
            /\ initialBBox.z_end >= currentBBox.z
            /\ initialBBox.y_end < currentBBox.y
            /\ initialBBox.x_end >= currentBBox.x
            /\ ~(/\ initialBBox.z < currentBBox.z_end
                 /\ initialBBox.y >= currentBBox.y_end
                 /\ initialBBox.x < currentBBox.x_end)

(***************************************************************************)
(* The arranger.  Its loops are recursive operators over an arranger state *)
(*   nx      next_quadrant_ps of PaintHead (HEAD) and of every pool entry  *)
(*   fl      quadrant_flags of every pool entry, a set of flag bits        *)
(*   wr      the entries whose quadrant_flags the arranger has written     *)
(*   log     the events so far                                             *)
(*   steps   loop iterations of the current helper call                    *)
(*   timeout the helper call used up its step budget                       *)
(* The quadrant_index and bounds of an entry are read from the pool p.     *)
(***************************************************************************)
\* The loop iterations one helper call may take on a pool of n entries.
HelperFuel(n) == (n + 2) * (n + 4)

\* One more loop iteration.
Tick(st) == [st EXCEPT !.steps = @ + 1]

OutOfFuel(st, p) == st.steps >= HelperFuel(Len(p))

TimedOut(st) == [st EXCEPT !.timeout = TRUE]

\* A read of ps->quadrant_flags; a read before any write is logged.
ReadFlags(st, ps) ==
    IF ps \in st.wr THEN st
    ELSE [st EXCEPT !.log = Append(@, [ev |-> "uninit", s |-> ps, t |-> ps, w |-> -1])]

\* Lines 349-355: skip the entries in front of quadrantIndex.
RECURSIVE SkipLoop(_, _, _, _)
SkipLoop(st, p, ps_next, quadrantIndex) ==
    IF OutOfFuel(st, p) THEN [st |-> TimedOut(st), returned |-> TRUE, ps |-> ps_next]
    ELSE LET ps == ps_next
             nxt == st.nx[ps_next]
         IN  IF nxt = NULL THEN [st |-> Tick(st), returned |-> TRUE, ps |-> ps]
             ELSE IF quadrantIndex > p[nxt].quadrant_index
                  THEN SkipLoop(Tick(st), p, nxt, quadrantIndex)
                  ELSE [st |-> Tick(st), returned |-> FALSE, ps |-> ps]

\* A tagging that ORs IDENTICAL into the flags an entry of the window's own
\* quadrant already holds.
TagFlags_OrsIntoOld(old, index, quadrantIndex, flag) ==
    IF index > quadrantIndex + 1 THEN {PAINT_QUADRANT_FLAG_BIGGER}
    ELSE IF index = quadrantIndex + 1
         THEN {PAINT_QUADRANT_FLAG_NEXT, PAINT_QUADRANT_FLAG_IDENTICAL}
    ELSE IF index = quadrantIndex THEN old \cup {PAINT_QUADRANT_FLAG_IDENTICAL}
    ELSE old

\* A tagging that never marks the entries of the window's own quadrant as
\* candidates.
TagFlags_OwnNeverNext(old, index, quadrantIndex, flag) ==
    IF index > quadrantIndex + 1 THEN {PAINT_QUADRANT_FLAG_BIGGER}
    ELSE IF index = quadrantIndex + 1
         THEN {PAINT_QUADRANT_FLAG_NEXT, PAINT_QUADRANT_FLAG_IDENTICAL}
    ELSE IF index = quadrantIndex THEN {PAINT_QUADRANT_FLAG_IDENTICAL}
    ELSE old

\* Lines 367-378: the flags the tagging loop gives an entry.
TagFlags(old, index, quadrantIndex, flag) ==
    IF index > quadrantIndex + 1 THEN {PAINT_QUADRANT_FLAG_BIGGER}
    ELSE IF index = quadrantIndex + 1
         THEN {PAINT_QUADRANT_FLAG_NEXT, PAINT_QUADRANT_FLAG_IDENTICAL}
    ELSE IF index = quadrantIndex THEN flag \cup {PAINT_QUADRANT_FLAG_IDENTICAL}
    ELSE old

\* Lines 360-380: tag the entries of the window.
RECURSIVE TagLoop(_, _, _, _, _)
TagLoop(st, p, ps0, quadrantIndex, flag) ==
    IF OutOfFuel(st, p) THEN TimedOut(st)
    ELSE LET ps == st.nx[ps0]
         IN  IF ps = NULL THEN Tick(st)
             ELSE LET index == p[ps].quadrant_index
                      written == index >= quadrantIndex
                      st2 == [Tick(st) EXCEPT
                                 !.fl[ps] = TagFlags(@, index, quadrantIndex, flag),
                                 !.wr = IF written THEN @ \cup {ps} ELSE @]
                  IN  IF index <= quadrantIndex + 1
                      THEN TagLoop(st2, p, ps, quadrantIndex, flag)
                      ELSE st2

\* A splice that links ps_next one entry farther on, behind the entry that
\* follows ps_temp.
Splice_OneFarther(nx, ps, ps_next, ps_temp) ==
    LET n1 == [nx EXCEPT ![ps] = nx[ps_next]]
        ps_temp2 == n1[ps_temp]
        n2 == [n1 EXCEPT ![ps_temp2] = ps_next]
    IN  [n2 EXCEPT ![ps_next] = n1[ps_temp2]]

\* A splice that unlinks ps_next and links it nowhere.
Splice_Dropped(nx, ps, ps_next, ps_temp) == [nx EXCEPT ![ps] = nx[ps_next]]

\* Lines 418-421: unlink ps_next, which follows ps, and link it after ps_temp.
Splice(nx, ps, ps_next, ps_temp) ==
    LET n1 == [nx EXCEPT ![ps] = nx[ps_next]]
        ps_temp2 == n1[ps_temp]
        n2 == [n1 EXCEPT ![ps_temp] = ps_next]
    IN  [n2 EXCEPT ![ps_next] = ps_temp2]

\* A reference entry that keeps its IDENTICAL flag.
ClearIdentical_Kept(flags) == flags

\* Line 396: ps_next->quadrant_flags &= ~PAINT_QUADRANT_FLAG_IDENTICAL
ClearIdentical(flags) == flags \ {PAINT_QUADRANT_FLAG_IDENTICAL}

\* Lines 401-424: compare the reference entry with the candidates behind it.
RECURSIVE ScanLoop(_, _, _, _, _, _, _)
ScanLoop(st, p, rotation, quadrantIndex, ps_next0, ps_temp, initial) ==
    IF OutOfFuel(st, p) THEN TimedOut(st)
    ELSE LET ps == ps_next0
             ps_next == st.nx[ps_next0]
         IN  IF ps_next = NULL THEN Tick(st)
             ELSE LET st1 == ReadFlags(Tick(st), ps_next)
                      flags == st1.fl[ps_next]
                  IN  IF PAINT_QUADRANT_FLAG_BIGGER \in flags THEN st1
                      ELSE IF PAINT_QUADRANT_FLAG_NEXT \notin flags
                           THEN ScanLoop(st1, p, rotation, quadrantIndex, ps_next,
                                         ps_temp, initial)
                      ELSE LET compareResult == CheckBoundingBox(
                                   rotation, p[initial].bounds, p[ps_next].bounds)
                               st2 == [st1 EXCEPT !.log = Append(@,
                                          [ev |-> "compare", s |-> initial, t |-> ps_next,
                                           w |-> quadrantIndex])]
                           IN  IF compareResult
                               THEN ScanLoop(
                                        [st2 EXCEPT
                                            !.nx = Splice(@, ps, ps_next, ps_temp),
                                            !.log = Append(@,
                                                [ev |-> "splice", s |-> initial,
                                                 t |-> ps_next, w |-> quadrantIndex,
                                                 temp |-> ps_temp,
                                                 nx |-> Splice(st2.nx, ps, ps_next, ps_temp)])],
                                        p, rotation, quadrantIndex, ps, ps_temp, initial)
                               ELSE ScanLoop(st2, p, rotation, quadrantIndex, ps_next,
                                             ps_temp, initial)

\* Lines 382-427: find the next entry flagged IDENTICAL, take it as the
\* reference entry, scan its candidates, and start again in front of it.
RECURSIVE FindLoop(_, _, _, _, _)
FindLoop(st, p, rotation, quadrantIndex, ps) ==
    IF OutOfFuel(st, p) \/ st.timeout THEN TimedOut(st)
    ELSE LET ps_next == st.nx[ps]
         IN  IF ps_next = NULL THEN Tick(st)
             ELSE LET st1 == ReadFlags(Tick(st), ps_next)
                      flags == st1.fl[ps_next]
                  IN  IF PAINT_QUADRANT_FLAG_BIGGER \in flags THEN st1
                      ELSE IF PAINT_QUADRANT_FLAG_IDENTICAL \in flags
                           THEN LET st2 == [st1 EXCEPT
                                        !.fl[ps_next] = ClearIdentical(@),
                                        !.log = Append(@,
                                            [ev |-> "reference", s |-> ps_next,
                                             t |-> ps_next, w |-> quadrantIndex])]
                                    st3 == ScanLoop(st2, p, rotation, quadrantIndex,
                                                    ps_next, ps, ps_next)
                                IN  FindLoop(st3, p, rotation, quadrantIndex, ps)
                           ELSE FindLoop(st1, p, rotation, quadrantIndex, ps_next)

\* PaintArrangeStructsHelperRotation<rotation>(ps_next, quadrantIndex, flag):
\* the arranger state it leaves and the entry it returns.
PaintArrangeStructsHelperRotation(st0, p, rotation, ps_next, quadrantIndex, flag) ==
    LET st == [st0 EXCEPT !.steps = 0]
        skip == SkipLoop(st, p, ps_next, quadrantIndex)
    IN  IF skip.returned THEN [st |-> skip.st, ret |-> skip.ps]
        ELSE LET ps_cache == skip.ps
                 tagged == TagLoop(skip.st, p, skip.ps, quadrantIndex, flag)
             IN  [st |-> FindLoop(tagged, p, rotation, quadrantIndex, skip.ps),
                  ret |-> ps_cache]

\* The last entry of the list that starts at ps.
RECURSIVE LastOfList(_, _)
LastOfList(nx, ps) == IF nx[ps] = NULL THEN ps ELSE LastOfList(nx, nx[ps])

\* A pass of a merge loop that stops in front of the front quadrant.
MergeStep_StopsBeforeFront(m, q, front) ==
    LET ps_next == QuadrantAt(q, m.quadrantIndex)
        nx1 == IF ps_next # NULL THEN [m.nx EXCEPT ![m.ps] = ps_next] ELSE m.nx
        ps1 == IF ps_next # NULL THEN LastOfList(nx1, ps_next) ELSE m.ps
    IN  [nx |-> nx1, ps |-> ps1, quadrantIndex |-> m.quadrantIndex + 1,
         more |-> m.quadrantIndex + 1 < front]

\* Lines 462-473: one pass of the merge loop, for quadrant m.quadrantIndex;
\* m.more is the loop condition ++quadrantIndex <= QuadrantFrontIndex.
MergeStep(m, q, front) ==
    LET ps_next == QuadrantAt(q, m.quadrantIndex)
        nx1 == IF ps_next # NULL THEN [m.nx EXCEPT ![m.ps] = ps_next] ELSE m.nx
        ps1 == IF ps_next # NULL THEN LastOfList(nx1, ps_next) ELSE m.ps
    IN  [nx |-> nx1, ps |-> ps1, quadrantIndex |-> m.quadrantIndex + 1,
         more |-> m.quadrantIndex + 1 <= front]

\* At most n passes of the merge loop.
RECURSIVE MergeRun(_, _, _, _)
MergeRun(m, q, front, n) ==
    IF n = 0 \/ ~m.more THEN m ELSE MergeRun(MergeStep(m, q, front), q, front, n - 1)

\* Lines 460-473: link the quadrant lists from back to front into one chain.
\* The passes are evaluated in runs of 32 to keep the evaluation shallow.
RECURSIVE MergeLoop(_, _, _)
MergeLoop(m, q, front) ==
    IF ~m.more THEN m.nx ELSE MergeLoop(MergeRun(m, q, front, 32), q, front)

\* Lines 479-482: one pass of the loop over the windows behind the first;
\* w.more is the loop condition ++quadrantIndex < QuadrantFrontIndex.
WindowStep(w, p, rotation, front) ==
    LET r == PaintArrangeStructsHelperRotation(
                 w.st, p, rotation, w.ps_cache, w.quadrantIndex % 65536, {})
    IN  [st |-> r.st, ps_cache |-> r.ret, quadrantIndex |-> w.quadrantIndex + 1,
         more |-> w.quadrantIndex + 1 < front /\ ~r.st.timeout]

\* At most n passes of the window loop.
RECURSIVE WindowRun(_, _, _, _, _)
WindowRun(w, p, rotation, front, n) ==
    IF n = 0 \/ ~w.more THEN w
    ELSE WindowRun(WindowStep(w, p, rotation, front), p, rotation, front, n - 1)

\* Lines 478-482: the helper calls for the windows behind the first, again
\* evaluated in runs of 32.
RECURSIVE WindowLoop(_, _, _, _)
WindowLoop(w, p, rotation, front) ==
    IF ~w.more THEN w.st ELSE WindowLoop(WindowRun(w, p, rotation, front, 32), p, rotation, front)

\* The arranger state PaintSessionArrange starts from; g is the value the
\* quadrant_flags fields, which nothing has set, happen to hold.
ArrangeStart(s, g) ==
    [nx |-> [i \in {HEAD} \cup (1 .. Len(s.pool)) |->
                IF i = HEAD THEN NULL ELSE s.pool[i].next_quadrant_ps],
     fl |-> [i \in 1 .. Len(s.pool) |->
                IF s.pool[i].quadrant_flags = UnsetFlags THEN g
                ELSE s.pool[i].quadrant_flags],
     wr |-> {i \in 1 .. Len(s.pool) : s.pool[i].quadrant_flags # UnsetFlags},
     log |-> <<>>, steps |-> 0, timeout |-> FALSE]

\* The chain after step 1 of PaintSessionArrange.
MergedChain(s, g) ==
    LET st == ArrangeStart(s, g)
    IN  [st EXCEPT !.nx = MergeLoop([nx |-> @, ps |-> HEAD,
                                     quadrantIndex |-> s.QuadrantBackIndex, more |-> TRUE],
                                    s.Quadrants, s.QuadrantFrontIndex)]

\* PaintSessionArrange: the arranger state it ends in.
PaintSessionArrange(s, rotation, g) ==
    IF s.QuadrantBackIndex = UINT32_MAX THEN ArrangeStart(s, g)
    ELSE LET r == PaintArrangeStructsHelperRotation(
                      MergedChain(s, g), s.pool, rotation, HEAD,
                      s.QuadrantBackIndex % 65536, {PAINT_QUADRANT_FLAG_NEXT})
         IN  WindowLoop([st |-> r.st, ps_cache |-> r.ret,
                         quadrantIndex |-> s.QuadrantBackIndex + 1,
                         more |-> s.QuadrantBackIndex + 1 < s.QuadrantFrontIndex
                                  /\ ~r.st.timeout],
                        s.pool, rotation, s.QuadrantFrontIndex)

(***************************************************************************)
(* PaintDrawStructs.  What it draws is a sequence of blits                 *)
(*   [kind, entry, owner, x, y]                                            *)
(* kind "ps" for a paint_struct, "attached" for an attached_paint_struct   *)
(* drawn with its owner, "timeout" when a walk did not end within the      *)
(* pool's size.                                                            *)
(***************************************************************************)
\* floor2(x, y) for y a power of two: x & ~(y - 1)
floor2(x, y) == x - (x % y)

\* A position that is aligned to the zoom level whatever the sprite type,
\* by 2 ^ zoom_level.
PaintDrawPosition_AllTypes(ps, dpi) ==
    LET x == Int16(ps.x)
        y == Int16(ps.y)
    IN  IF dpi.zoom_level >= 1
        THEN <<floor2(x, 2 ^ dpi.zoom_level), floor2(y, 2 ^ dpi.zoom_level)>>
        ELSE <<x, y>>

\* A position whose alignment stops at 2.
PaintDrawPosition_OneStep(ps, dpi) ==
    LET x == Int16(ps.x)
        y == Int16(ps.y)
    IN  IF ps.sprite_type = VIEWPORT_INTERACTION_ITEM_SPRITE /\ dpi.zoom_level >= 1
        THEN <<floor2(x, 2), floor2(y, 2)>>
        ELSE <<x, y>>

\* Lines 490-505: the position PaintDrawStruct draws ps at.
PaintDrawPosition(ps, dpi) ==
    LET x == Int16(ps.x)
        y == Int16(ps.y)
    IN  IF ps.sprite_type = VIEWPORT_INTERACTION_ITEM_SPRITE
        THEN IF dpi.zoom_level >= 1
             THEN IF dpi.zoom_level >= 2
                  THEN <<floor2(floor2(x, 2), 4), floor2(floor2(y, 2), 4)>>
                  ELSE <<floor2(x, 2), floor2(y, 2)>>
             ELSE <<x, y>>
        ELSE <<x, y>>

Blit(kind, entry, owner, pos) ==
    [kind |-> kind, entry |-> entry, owner |-> owner, x |-> pos[1], y |-> pos[2]]

\* PaintAttachedPS: the attached entries of ps, from attached_ps on through
\* next, each at its offset from ps->x, ps->y.
RECURSIVE AttachedLoop(_, _, _, _)
AttachedLoop(p, ps, attached_ps, n) ==
    IF attached_ps = NULL THEN <<>>
    ELSE IF n = 0 THEN <<Blit("timeout", attached_ps, ps, <<0, 0>>)>>
    ELSE <<Blit("attached", attached_ps, ps,
                <<p[attached_ps].x + p[ps].x, p[attached_ps].y + p[ps].y>>)>>
             \o AttachedLoop(p, ps, p[attached_ps].next, n - 1)

PaintAttachedPS(p, ps) == AttachedLoop(p, ps, p[ps].attached_ps, Len(p))

\* A PaintDrawStruct that draws the attached entries of ps whether or not ps
\* has a child.
RECURSIVE PaintDrawStruct_AttachedAlways(_, _, _, _)
PaintDrawStruct_AttachedAlways(p, dpi, ps, n) ==
    IF n = 0 THEN <<Blit("timeout", ps, ps, <<0, 0>>)>>
    ELSE <<Blit("ps", ps, ps, PaintDrawPosition(p[ps], dpi))>>
             \o PaintAttachedPS(p, ps)
             \o (IF p[ps].children # NULL
                 THEN PaintDrawStruct_AttachedAlways(p, dpi, p[ps].children, n - 1)
                 ELSE <<>>)

\* PaintDrawStruct: ps, then its child and the child's descendants if it has
\* a child, and its attached entries if it has none.
RECURSIVE PaintDrawStruct(_, _, _, _)
PaintDrawStruct(p, dpi, ps, n) ==
    IF n = 0 THEN <<Blit("timeout", ps, ps, <<0, 0>>)>>
    ELSE <<Blit("ps", ps, ps, PaintDrawPosition(p[ps], dpi))>>
             \o (IF p[ps].children # NULL
                 THEN PaintDrawStruct(p, dpi, p[ps].children, n - 1)
                 ELSE PaintAttachedPS(p, ps))

\* Lines 535-540: the loop over the chain from ps on.
RECURSIVE DrawLoop(_, _, _, _)
DrawLoop(p, dpi, ps, n) ==
    IF ps = NULL THEN <<>>
    ELSE IF n = 0 \/ ps = Indeterminate THEN <<Blit("timeout", ps, ps, <<0, 0>>)>>
    ELSE PaintDrawStruct(p, dpi, ps, Len(p)) \o DrawLoop(p, dpi, p[ps].next_quadrant_ps, n - 1)

PaintDrawStructs(p, dpi, headNext) == DrawLoop(p, dpi, headNext, Len(p))

\* format_string and gfx_draw_string_with_y_offsets for one paint_string_struct.
DrawString(p, ps) ==
    [entry |-> ps, string_id |-> p[ps].image_id, x |-> p[ps].x, y |-> p[ps].y]

\* A PaintDrawMoneyStructs that draws the head of the chain only.
PaintDrawMoneyStructs_HeadOnly(p, ps, n) == <<DrawString(p, ps)>>

\* PaintDrawMoneyStructs: the do-while loop from ps on through next; ps is
\* not null. n bounds the walk by the pool's size.
RECURSIVE PaintDrawMoneyStructs(_, _, _)
PaintDrawMoneyStructs(p, ps, n) ==
    <<DrawString(p, ps)>>
        \o (IF p[ps].next = NULL THEN <<>>
            ELSE IF n = 0 THEN <<[entry |-> Indeterminate, string_id |-> 0, x |-> 0, y |-> 0]>>
            ELSE PaintDrawMoneyStructs(p, p[ps].next, n - 1))

(***************************************************************************)
(* Inputs of the creation calls.                                           *)
(***************************************************************************)
BoxInput(image, offset, size, bbOffset) ==
    [image_id |-> image, offset |-> offset, boundBoxSize |-> size,
     boundBoxOffset |-> bbOffset]

\* A flat box on the tile, a box one quadrant further at rotation 0, a box
\* whose image lies outside the clip rectangle, a box whose image has no
\* metadata.
FlatBox == BoxInput(1, <<0, 0, 0>>, <<20, 20, 0>>, <<0, 0, 0>>)
TallBox == BoxInput(1, <<0, 0, 0>>, <<12, 12, 8>>, <<32, 0, 0>>)
CulledBox == BoxInput(1, <<0, 0, 200>>, <<12, 12, 8>>, <<0, 0, 0>>)
NoImageBox == BoxInput(0, <<0, 0, 0>>, <<12, 12, 8>>, <<0, 0, 0>>)

ParentInputs == {FlatBox, TallBox, NoImageBox}
OrphanInputs == {FlatBox}
ChildInputs == {FlatBox, CulledBox}
AttachInputs == {[image_id |-> 1, x |-> 3, y |-> -2]}
MoneyInputs == {[string_id |-> 7, amount |-> 10, y |-> 0, z |-> 16, offset_x |-> 4,
                 rotation |-> 0]}

\* The values an unset uint16_t quadrant_index may hold: one inside the table
\* and one outside it.
GarbageIndex == {0, 65535}

\* The values an unset quadrant_flags may hold.
GarbageFlags == {{}, {PAINT_QUADRANT_FLAG_IDENTICAL, PAINT_QUADRANT_FLAG_NEXT,
                      PAINT_QUADRANT_FLAG_BIGGER}}

\* The clip rectangle of a view that looks at the tile at SpritePosition.
ViewDPI(rotation) ==
    LET c == translate_3d_to_2d_with_z(rotation, <<SpritePosition[1], SpritePosition[2], 0>>)
    IN  [x |-> c[1] - 32, y |-> c[2] - 32, width |-> 64, height |-> 64, zoom_level |-> 0]

(***************************************************************************)
(* The state machine.                                                      *)
(***************************************************************************)
\* The session as the painter hands it out: pool and quadrant table empty,
\* the back index at its sentinel, the cursors null.
NewSession ==
    [pool |-> <<>>, Quadrants |-> <<>>, QuadrantBackIndex |-> UINT32_MAX,
     QuadrantFrontIndex |-> 0, LastPS |-> NULL, LastAttachedPS |-> NULL,
     PSStringHead |-> NULL, LastPSString |-> NULL]

\* A second session, at the given rotation.
NewPeer(rotation) ==
    [s |-> NewSession, rotation |-> rotation, dpi |-> ViewDPI(rotation),
     head |-> Indeterminate, pc |-> "generate"]

NoCalls == <<<<>>, <<>>>>

(***************************************************************************)
(* The scenario objective as scripts see it (ScScenarioObjective): each    *)
(* property is a getter and a setter over the objective globals.           *)
(***************************************************************************)
OBJECTIVE_NONE == 0
OBJECTIVE_GUESTS_BY == 1
OBJECTIVE_PARK_VALUE_BY == 2
OBJECTIVE_HAVE_FUN == 3
OBJECTIVE_BUILD_THE_BEST == 4
OBJECTIVE_10_ROLLERCOASTERS == 5
OBJECTIVE_GUESTS_AND_RATING == 6
OBJECTIVE_MONTHLY_RIDE_INCOME == 7
OBJECTIVE_10_ROLLERCOASTERS_LENGTH == 8
OBJECTIVE_FINISH_5_ROLLERCOASTERS == 9
OBJECTIVE_REPLAY_LOAN_AND_PARK_VALUE == 10
OBJECTIVE_MONTHLY_FOOD_INCOME == 11

\* The objective globals as a record.
Objective ==
    [type |-> gScenarioObjectiveType, numGuests |-> gScenarioObjectiveNumGuests,
     year |-> gScenarioObjectiveYear, currency |-> gScenarioObjectiveCurrency]

guests_get(o) ==
    IF o.type = OBJECTIVE_GUESTS_BY \/ o.type = OBJECTIVE_GUESTS_AND_RATING
    THEN o.numGuests ELSE 0

guests_set(o, value) ==
    IF o.type = OBJECTIVE_GUESTS_BY \/ o.type = OBJECTIVE_GUESTS_AND_RATING
    THEN [o EXCEPT !.numGuests = value] ELSE o

year_get(o) ==
    IF o.type = OBJECTIVE_GUESTS_BY \/ o.type = OBJECTIVE_PARK_VALUE_BY
    THEN o.year ELSE 0

year_set(o, value) ==
    IF o.type = OBJECTIVE_GUESTS_BY \/ o.type = OBJECTIVE_PARK_VALUE_BY
    THEN [o EXCEPT !.year = value] ELSE o

length_get(o) ==
    IF o.type = OBJECTIVE_10_ROLLERCOASTERS_LENGTH THEN o.numGuests ELSE 0

length_set(o, value) ==
    IF o.type = OBJECTIVE_10_ROLLERCOASTERS_LENGTH
    THEN [o EXCEPT !.numGuests = value] ELSE o

excitement_get(o) ==
    IF o.type = OBJECTIVE_FINISH_5_ROLLERCOASTERS THEN o.currency ELSE 0

excitement_set(o, value) ==
    IF o.type = OBJECTIVE_FINISH_5_ROLLERCOASTERS
    THEN [o EXCEPT !.currency = value] ELSE o

parkValue_get(o) ==
    IF o.type = OBJECTIVE_PARK_VALUE_BY \/ o.type = OBJECTIVE_REPLAY_LOAN_AND_PARK_VALUE
    THEN o.currency ELSE 0

parkValue_set(o, value) ==
    IF o.type = OBJECTIVE_PARK_VALUE_BY \/ o.type = OBJECTIVE_REPLAY_LOAN_AND_PARK_VALUE
    THEN [o EXCEPT !.currency = value] ELSE o

monthlyIncome_get(o) ==
    IF o.type = OBJECTIVE_MONTHLY_RIDE_INCOME \/ o.type = OBJECTIVE_MONTHLY_FOOD_INCOME
    THEN o.currency ELSE 0

\* Lines 158-166: the test is the one of parkValue_set.
monthlyIncome_set(o, value) ==
    IF o.type = OBJECTIVE_PARK_VALUE_BY \/ o.type = OBJECTIVE_REPLAY_LOAN_AND_PARK_VALUE
    THEN [o EXCEPT !.currency = value] ELSE o

\* type_set, with the value already looked up in ScenarioObjectiveTypeMap.
type_set(o, value) == [o EXCEPT !.type = value]

\* No script has touched the objective.
NoSet ==
    [property |-> "none", value |-> 0, threw |-> FALSE,
     before |-> [type |-> OBJECTIVE_NONE, numGuests |-> 0, year |-> 0, currency |-> 0]]

\* The objective of a scenario without one.
NoScenario ==
    /\ gScenarioObjectiveType = OBJECTIVE_NONE
    /\ gScenarioObjectiveNumGuests = 0
    /\ gScenarioObjectiveYear = 0
    /\ gScenarioObjectiveCurrency = 0
    /\ gameStateMutable = FALSE
    /\ lastSet = NoSet

\* The session as the painter hands it out, with an arena of n entries.
InitArena(n) ==
    /\ capacity = n
    /\ pool = <<>>
    /\ Quadrants = <<>>
    /\ QuadrantBackIndex = UINT32_MAX
    /\ QuadrantFrontIndex = 0
    /\ LastPS = NULL
    /\ LastAttachedPS = NULL
    /\ PSStringHead = NULL
    /\ LastPSString = NULL
    /\ PaintHeadNext = Indeterminate
    /\ pc = "generate"
    /\ arrLog = <<>>
    /\ arrTimeout = FALSE
    /\ blits = <<>>
    /\ texts = <<>>
    /\ scan = "idle"
    /\ mapTile = <<0, 0>>
    /\ num_vertical_quadrants = 0
    /\ emitted = <<>>

InitOwnSession == InitArena(MaxEntries)

\* One session; the second one is not used.
InitSession ==
    /\ InitOwnSession
    /\ peer = NewPeer(0)
    /\ calls = NoCalls
    /\ boxes = <<>>
    /\ dominance = <<>>
    /\ NoScenario

Init ==
    /\ CurrentRotation \in Rotations
    /\ DPI = ViewDPI(CurrentRotation)
    /\ InteractionType = VIEWPORT_INTERACTION_ITEM_SPRITE
    /\ InitSession

\* The session a creation call leaves.
LeaveSession(s) ==
    /\ pool' = s.pool
    /\ Quadrants' = s.Quadrants
    /\ QuadrantBackIndex' = s.QuadrantBackIndex
    /\ QuadrantFrontIndex' = s.QuadrantFrontIndex
    /\ LastPS' = s.LastPS
    /\ LastAttachedPS' = s.LastAttachedPS
    /\ PSStringHead' = s.PSStringHead
    /\ LastPSString' = s.LastPSString

Leave(s) ==
    /\ LeaveSession(s)
    /\ UNCHANGED <<boxVars, arenaVars, scenarioVars, scanVars, viewVars, arrVars, drawVars, peerVars, pc>>

CallPaintAddImageAsParent(inp) ==
    /\ pc = "generate"
    /\ Leave(PaintAddImageAsParent(Session, CurrentRotation, DPI, inp).s)

CallPaintAddImageAsOrphan(inp, g) ==
    /\ pc = "generate"
    /\ Leave(PaintAddImageAsOrphan(Session, CurrentRotation, DPI, inp, g).s)

CallPaintAddImageAsChild(inp, g) ==
    /\ pc = "generate"
    /\ Leave(PaintAddImageAsChild(Session, CurrentRotation, DPI, inp, g).s)

CallPaintAttachToPreviousPS(inp) ==
    /\ pc = "generate"
    /\ Leave(PaintAttachToPreviousPS(Session, inp).s)

CallPaintAttachToPreviousAttach(inp) ==
    /\ pc = "generate"
    /\ Leave(PaintAttachToPreviousAttach(Session, inp).s)

CallPaintFloatingMoneyEffect(inp) ==
    /\ pc = "generate"
    /\ Leave(PaintFloatingMoneyEffect(Session, inp).s)

\* The arranger states PaintSessionArrange can end in: one unless it reads a
\* quadrant_flags field nothing has set, and then one per value of that field.
ArrangeOutcomes(s, rotation) ==
    LET st == PaintSessionArrange(s, rotation, {})
    IN  IF \A k \in 1 .. Len(st.log) : st.log[k].ev # "uninit" THEN {st}
        ELSE {PaintSessionArrange(s, rotation, g) : g \in GarbageFlags}

\* A pool in which the arranger has also renumbered the quadrants of the
\* entries it tagged, counting from the back quadrant.
ArrangedPool_RenumbersQuadrants(p, st) ==
    [i \in 1 .. Len(p) |->
        IF p[i].kind = "ps"
        THEN [p[i] EXCEPT !.next_quadrant_ps = st.nx[i],
                          !.quadrant_flags = IF i \in st.wr THEN st.fl[i] ELSE @,
                          !.quadrant_index = IF i \in st.wr THEN @ - QuadrantBackIndex ELSE @]
        ELSE p[i]]

\* The pool with the links and the flags the arranger has written.
ArrangedPool(p, st) ==
    [i \in 1 .. Len(p) |->
        IF p[i].kind = "ps"
        THEN [p[i] EXCEPT !.next_quadrant_ps = st.nx[i],
                          !.quadrant_flags = IF i \in st.wr THEN st.fl[i] ELSE @]
        ELSE p[i]]

\* PaintSessionArrange, called once when generation is over.
CallPaintSessionArrange ==
    /\ pc = "generate"
    /\ \E st \in ArrangeOutcomes(Session, CurrentRotation) :
          /\ pool' = ArrangedPool(pool, st)
          /\ PaintHeadNext' = st.nx[HEAD]
          /\ arrLog' = st.log
          /\ arrTimeout' = st.timeout
    /\ pc' = "arranged"
    /\ UNCHANGED <<boxVars, arenaVars, scenarioVars, scanVars, viewVars, drawVars, peerVars, Quadrants, QuadrantBackIndex,
                   QuadrantFrontIndex, LastPS, LastAttachedPS, PSStringHead, LastPSString>>

\* PaintDrawStructs, called once on the arranged session.
CallPaintDrawStructs ==
    /\ pc = "arranged"
    /\ blits' = PaintDrawStructs(pool, DPI, PaintHeadNext)
    /\ pc' = "drawn"
    /\ UNCHANGED <<boxVars, arenaVars, scenarioVars, scanVars, viewVars, sessionVars, arrVars, peerVars, texts>>

\* The emitters set session->InteractionType before they add primitives.
SetInteractionType(type) ==
    /\ pc = "generate"
    /\ InteractionType # type
    /\ InteractionType' = type
    /\ UNCHANGED <<boxVars, arenaVars, scenarioVars, scanVars, CurrentRotation, DPI, sessionVars, arrVars, drawVars, peerVars, pc>>

\* Every creation operation, then the arrangement.
Next ==
    \/ \E inp \in ParentInputs : CallPaintAddImageAsParent(inp)
    \/ \E inp \in OrphanInputs, g \in GarbageIndex : CallPaintAddImageAsOrphan(inp, g)
    \/ \E inp \in ChildInputs, g \in GarbageIndex : CallPaintAddImageAsChild(inp, g)
    \/ \E inp \in AttachInputs : CallPaintAttachToPreviousPS(inp)
    \/ \E inp \in AttachInputs : CallPaintAttachToPreviousAttach(inp)
    \/ \E inp \in MoneyInputs : CallPaintFloatingMoneyEffect(inp)
    \/ CallPaintSessionArrange

Spec == Init /\ [][Next]_vars

(***************************************************************************)
(* The arrangement on its own: root primitives with boxes that are         *)
(* identical, overlapping, one above the other, dominating one another in  *)
(* a cycle, and in the same, the next and farther quadrants.               *)
(***************************************************************************)
\* The two boxes of the documented scenario: at rotation 0 their bounds are
\* x 0..10, y 0..10, z 0..10 and x 5..15, y 5..15, z 0..5.
ScenarioBoxA == BoxInput(1, <<0, 0, 0>>, <<11, 11, 10>>, <<-128, -128, 0>>)
ScenarioBoxB == BoxInput(1, <<0, 0, 0>>, <<11, 11, 5>>, <<-123, -123, 0>>)

ArrangeInputs ==
    {ScenarioBoxA, ScenarioBoxB,
     FlatBox,
     BoxInput(1, <<0, 0, 0>>, <<20, 20, 0>>, <<0, 0, 8>>),
     BoxInput(1, <<0, 0, 0>>, <<16, 16, 8>>, <<0, 16, 0>>),
     BoxInput(1, <<0, 0, 0>>, <<8, 40, 8>>, <<16, 0, 0>>),
     BoxInput(1, <<0, 0, 0>>, <<40, 8, 8>>, <<0, 0, 8>>),
     TallBox}

NextArrange ==
    \/ \E inp \in ArrangeInputs : CallPaintAddImageAsParent(inp)
    \/ CallPaintSessionArrange

SpecArrange == Init /\ [][NextArrange]_vars

(***************************************************************************)
(* The quadrant table on its own: roots whose position hash lies below,    *)
(* inside and above the table, and orphans and children, which get no      *)
(* quadrant.                                                               *)
(***************************************************************************)
\* At rotation 0 LowBox hashes below quadrant 0; at rotation 2 HighBox
\* hashes above the last quadrant.
LowBox == BoxInput(1, <<0, 0, 0>>, <<12, 12, 8>>, <<-200, -200, 0>>)
HighBox == BoxInput(1, <<0, 0, 0>>, <<12, 12, 8>>, <<200, 200, 0>>)

QuadrantInputs == {FlatBox, LowBox, HighBox}

NextQuadrant ==
    \/ \E inp \in QuadrantInputs : CallPaintAddImageAsParent(inp)
    \/ \E inp \in OrphanInputs, g \in GarbageIndex : CallPaintAddImageAsOrphan(inp, g)
    \/ \E inp \in OrphanInputs, g \in GarbageIndex : CallPaintAddImageAsChild(inp, g)
    \/ CallPaintSessionArrange

SpecQuadrant == Init /\ [][NextQuadrant]_vars

(***************************************************************************)
(* The clip test on its own: clip rectangles that miss, touch and overlap  *)
(* by one pixel each edge of the footprint of an image drawn at the tile.  *)
(***************************************************************************)
\* Width and height of the clip rectangles.
ClipSize == 4

\* An image of one pixel by two, in the middle of the tile's footprint.
PixelBox == BoxInput(2, <<0, 0, 0>>, <<12, 12, 8>>, <<0, 0, 0>>)

CullInputs == {FlatBox, PixelBox}

\* The positions of a clip edge around the footprint's edges lo and hi.
EdgePositions(lo, hi) ==
    {lo - ClipSize - 1, lo - ClipSize, lo - ClipSize + 1, lo + 8, hi - 1, hi, hi + 1}

CullDPIs(rotation) ==
    LET c == ImagePos(rotation, FlatBox.offset)
        g1 == gfx_get_g1_element(FlatBox.image_id)
        left == c[1] + g1.x_offset
        bottom == c[2] + g1.y_offset
    IN  {[x |-> dx, y |-> dy, width |-> ClipSize, height |-> ClipSize, zoom_level |-> 0] :
            dx \in EdgePositions(left, left + g1.width),
            dy \in EdgePositions(bottom, bottom + g1.height)}

InitCull ==
    /\ CurrentRotation \in Rotations
    /\ DPI \in CullDPIs(CurrentRotation)
    /\ InteractionType = VIEWPORT_INTERACTION_ITEM_SPRITE
    /\ InitSession

NextCull ==
    \/ \E inp \in CullInputs : CallPaintAddImageAsParent(inp)
    \/ \E inp \in CullInputs : CallPaintAddImageAsOrphan(inp, 0)
    \/ \E inp \in CullInputs : CallPaintAddImageAsChild(inp, 0)

SpecCull == InitCull /\ [][NextCull]_vars

(***************************************************************************)
(* Drawing: a session at rotation 0 at every zoom level, with primitives   *)
(* of two sprite types at odd and negative screen positions, children,     *)
(* orphans and attached entries, generated, arranged and drawn.            *)
(***************************************************************************)
ZoomLevels == 0 .. 3

InteractionTypes == {VIEWPORT_INTERACTION_ITEM_SPRITE, VIEWPORT_INTERACTION_ITEM_RIDE}

\* At rotation 0 the image of OddBox is at screen position (13, 7) and the
\* image of NegativeBox at (-5, -3).
OddBox == BoxInput(1, <<0, 13, 127>>, <<12, 12, 8>>, <<0, 0, 0>>)
NegativeBox == BoxInput(1, <<5, 0, 133>>, <<12, 12, 8>>, <<32, 0, 0>>)

DrawInputs == {OddBox, NegativeBox}

\* The orphans have an image of their own.
OrphanBox == BoxInput(3, <<0, 13, 127>>, <<12, 12, 8>>, <<0, 0, 0>>)

\* A clip rectangle around the origin of the screen.
DrawDPI(zoom) == [x |-> -256, y |-> -256, width |-> 512, height |-> 512, zoom_level |-> zoom]

InitDraw ==
    /\ CurrentRotation = 0
    /\ \E zoom \in ZoomLevels : DPI = DrawDPI(zoom)
    /\ InteractionType \in InteractionTypes
    /\ InitSession

NextDraw ==
    \/ \E type \in InteractionTypes : SetInteractionType(type)
    \/ \E inp \in DrawInputs : CallPaintAddImageAsParent(inp)
    \/ \E g \in GarbageIndex : CallPaintAddImageAsOrphan(OrphanBox, g)
    \/ CallPaintAddImageAsChild(NegativeBox, 0)
    \/ \E inp \in AttachInputs : CallPaintAttachToPreviousPS(inp)
    \/ \E inp \in AttachInputs : CallPaintAttachToPreviousAttach(inp)
    \/ CallPaintSessionArrange
    \/ CallPaintDrawStructs

SpecDraw == InitDraw /\ [][NextDraw]_vars

(***************************************************************************)
(* The arrangement of a staircase: three boxes in three consecutive        *)
(* quadrants at rotation 0, each above and behind the next, and a flat box *)
(* in the first of the quadrants.                                          *)
(***************************************************************************)
\* At rotation 0 the bounds are x 0..40, y 0..40, z 16..24 (quadrant 0),
\* x 32..72, y 0..8, z 8..16 (quadrant 1) and x 64..72, y 0..8, z 0..8
\* (quadrant 2).
StairTop == BoxInput(1, <<0, 0, 0>>, <<41, 41, 8>>, <<-128, -128, 16>>)
StairMiddle == BoxInput(1, <<0, 0, 0>>, <<41, 9, 8>>, <<-96, -128, 8>>)
StairBottom == BoxInput(1, <<0, 0, 0>>, <<9, 9, 8>>, <<-64, -128, 0>>)

StairInputs == {StairTop, StairMiddle, StairBottom, ScenarioBoxB}

NextStairs ==
    \/ \E inp \in StairInputs : CallPaintAddImageAsParent(inp)
    \/ CallPaintSessionArrange

SpecStairs == Init /\ [][NextStairs]_vars

(***************************************************************************)
(* Two sessions at different rotations, each of them generated and         *)
(* arranged by calls that take the session as their argument, the calls on *)
(* the one interleaved with the calls on the other in every order.         *)
(***************************************************************************)
SessionCalls ==
    {[op |-> "parent", inp |-> ScenarioBoxA],
     [op |-> "parent", inp |-> ScenarioBoxB],
     [op |-> "attach", inp |-> [image_id |-> 1, x |-> 3, y |-> -2]]}

\* The session a creation call leaves.
ApplyCall(s, rotation, dpi, call) ==
    IF call.op = "parent"
    THEN PaintAddImageAsParent(s, rotation, dpi, call.inp).s
    ELSE PaintAttachToPreviousPS(s, call.inp).s

OwnCall(call) ==
    /\ pc = "generate"
    /\ Len(calls[1]) < MaxEntries
    /\ LeaveSession(ApplyCall(Session, CurrentRotation, DPI, call))
    /\ calls' = [calls EXCEPT ![1] = Append(@, call)]
    /\ UNCHANGED <<boxVars, arenaVars, scenarioVars, scanVars, viewVars, arrVars, drawVars, peer, pc>>

PeerCall(call) ==
    /\ peer.pc = "generate"
    /\ Len(calls[2]) < MaxEntries
    /\ peer' = [peer EXCEPT !.s = ApplyCall(@, peer.rotation, peer.dpi, call)]
    /\ calls' = [calls EXCEPT ![2] = Append(@, call)]
    /\ UNCHANGED <<boxVars, arenaVars, scenarioVars, scanVars, viewVars, sessionVars, arrVars, drawVars, pc>>

PeerPaintSessionArrange ==
    /\ peer.pc = "generate"
    /\ \E st \in ArrangeOutcomes(peer.s, peer.rotation) :
          peer' = [peer EXCEPT !.s.pool = ArrangedPool(@, st),
                               !.head = st.nx[HEAD],
                               !.pc = "arranged"]
    /\ UNCHANGED <<boxVars, arenaVars, scenarioVars, scanVars, viewVars, sessionVars, arrVars, drawVars, calls, pc>>

InitSessions ==
    /\ CurrentRotation \in {0, 3}
    /\ DPI = ViewDPI(CurrentRotation)
    /\ InteractionType = VIEWPORT_INTERACTION_ITEM_SPRITE
    /\ InitOwnSession
    /\ peer = NewPeer((CurrentRotation + 1) % 4)
    /\ calls = NoCalls
    /\ boxes = <<>>
    /\ dominance = <<>>
    /\ NoScenario

NextSessions ==
    \/ \E call \in SessionCalls : OwnCall(call)
    \/ \E call \in SessionCalls : PeerCall(call)
    \/ CallPaintSessionArrange
    \/ PeerPaintSessionArrange

SpecSessions == InitSessions /\ [][NextSessions]_vars

(***************************************************************************)
(* The quadrant of one primitive: a single root whose bounds start on a    *)
(* grid of origins inside the table, below it, beyond it and beyond the    *)
(* 16-bit range.                                                           *)
(***************************************************************************)
HashOrigins == {-400, -129, -97, 0, 300, 9000, 32700}

HashInputs ==
    {BoxInput(1, <<0, 0, 0>>, <<12, 12, 8>>, <<x, y, 0>>) : x \in HashOrigins, y \in HashOrigins}

\* The first root of a session.
CallFirstPaintAddImageAsParent(inp) ==
    /\ pool = <<>>
    /\ CallPaintAddImageAsParent(inp)

NextHash == \E inp \in HashInputs : CallFirstPaintAddImageAsParent(inp)

SpecHash == Init /\ [][NextHash]_vars

(***************************************************************************)
(* Texts: money effects of two kinds among root primitives, then the       *)
(* arrangement, PaintDrawStructs and PaintDrawMoneyStructs.                *)
(***************************************************************************)
MoneyDrawInputs ==
    MoneyInputs \cup {[string_id |-> 8, amount |-> -25, y |-> 3, z |-> 0, offset_x |-> -6,
                       rotation |-> 1]}

\* The viewport calls PaintDrawMoneyStructs with session->PSStringHead after
\* PaintDrawStructs, when there is a text chain.
CallPaintDrawMoneyStructs ==
    /\ pc = "drawn"
    /\ PSStringHead # NULL
    /\ texts = <<>>
    /\ texts' = PaintDrawMoneyStructs(pool, PSStringHead, Len(pool))
    /\ UNCHANGED <<boxVars, arenaVars, scenarioVars, scanVars, viewVars, sessionVars, arrVars, peerVars, blits, pc>>

NextMoney ==
    \/ CallPaintAddImageAsParent(FlatBox)
    \/ \E inp \in MoneyDrawInputs : CallPaintFloatingMoneyEffect(inp)
    \/ CallPaintSessionArrange
    \/ CallPaintDrawStructs
    \/ CallPaintDrawMoneyStructs

SpecMoney == Init /\ [][NextMoney]_vars

(***************************************************************************)
(* Scripts on the scenario objective: any objective type to start with,    *)
(* the game state mutable or not, and then setter calls in any order.      *)
(***************************************************************************)
ObjectiveTypes == OBJECTIVE_NONE .. OBJECTIVE_MONTHLY_FOOD_INCOME

\* The values the scripts pass to the setters.
ObjectiveValues == {40, 250}

InitScenario ==
    /\ CurrentRotation = 0
    /\ DPI = ViewDPI(CurrentRotation)
    /\ InteractionType = VIEWPORT_INTERACTION_ITEM_SPRITE
    /\ InitOwnSession
    /\ peer = NewPeer(0)
    /\ calls = NoCalls
    /\ boxes = <<>>
    /\ dominance = <<>>
    /\ gScenarioObjectiveType \in ObjectiveTypes
    /\ gScenarioObjectiveNumGuests = 0
    /\ gScenarioObjectiveYear = 0
    /\ gScenarioObjectiveCurrency = 0
    /\ gameStateMutable \in BOOLEAN
    /\ lastSet = NoSet

\* A setter called by a script: ThrowIfGameStateNotMutable() first, and then
\* the objective the setter leaves.
CallSetter(property, value, o) ==
    /\ IF gameStateMutable
       THEN /\ gScenarioObjectiveType' = o.type
            /\ gScenarioObjectiveNumGuests' = o.numGuests
            /\ gScenarioObjectiveYear' = o.year
            /\ gScenarioObjectiveCurrency' = o.currency
       ELSE UNCHANGED <<gScenarioObjectiveType, gScenarioObjectiveNumGuests,
                        gScenarioObjectiveYear, gScenarioObjectiveCurrency>>
    /\ lastSet' = [property |-> property, value |-> value, threw |-> ~gameStateMutable,
                   before |-> Objective]
    /\ UNCHANGED <<boxVars, arenaVars, scanVars, viewVars, sessionVars, arrVars, drawVars,
                   peerVars, pc, gameStateMutable>>

NextScenario ==
    \/ \E value \in ObjectiveTypes : CallSetter("type", value, type_set(Objective, value))
    \/ \E value \in ObjectiveValues : CallSetter("guests", value, guests_set(Objective, value))
    \/ \E value \in ObjectiveValues : CallSetter("year", value, year_set(Objective, value))
    \/ \E value \in ObjectiveValues : CallSetter("length", value, length_set(Objective, value))
    \/ \E value \in ObjectiveValues :
           CallSetter("excitement", value, excitement_set(Objective, value))
    \/ \E value \in ObjectiveValues :
           CallSetter("parkValue", value, parkValue_set(Objective, value))
    \/ \E value \in ObjectiveValues :
           CallSetter("monthlyIncome", value, monthlyIncome_set(Objective, value))

SpecScenario == InitScenario /\ [][NextScenario]_vars

(***************************************************************************)
(* Attaching: one root, and then attach calls of both kinds in any mix, in *)
(* an arena that holds the root and MaxAttached attached entries.          *)
(***************************************************************************)
MixedAttachInputs == AttachInputs \cup {[image_id |-> 1, x |-> -4, y |-> 5]}

InitAttach ==
    /\ CurrentRotation \in Rotations
    /\ DPI = ViewDPI(CurrentRotation)
    /\ InteractionType = VIEWPORT_INTERACTION_ITEM_SPRITE
    /\ InitArena(1 + MaxAttached)
    /\ peer = NewPeer(0)
    /\ calls = NoCalls
    /\ boxes = <<>>
    /\ dominance = <<>>
    /\ NoScenario

NextAttach ==
    \/ CallFirstPaintAddImageAsParent(FlatBox)
    \/ \E inp \in MixedAttachInputs : CallPaintAttachToPreviousPS(inp)
    \/ \E inp \in MixedAttachInputs : CallPaintAttachToPreviousAttach(inp)

SpecAttach == InitAttach /\ [][NextAttach]_vars

(***************************************************************************)
(* CheckBoundingBox on its own: every pair of boxes with corners on a      *)
(* small grid, flat boxes and boxes that touch included, at every          *)
(* rotation.                                                               *)
(***************************************************************************)
MaxCoord == 1

\* The boxes with start <= end on every axis and coordinates up to MaxCoord.
GridBoxes ==
    {b \in [x : 0 .. MaxCoord, y : 0 .. MaxCoord, z : 0 .. MaxCoord,
            x_end : 0 .. MaxCoord, y_end : 0 .. MaxCoord, z_end : 0 .. MaxCoord] :
        b.x <= b.x_end /\ b.y <= b.y_end /\ b.z <= b.z_end}

\* CheckBoundingBox<rotation>(S, T) and CheckBoundingBox<rotation>(T, S).
CallCheckBoundingBox ==
    /\ boxes # <<>>
    /\ dominance = <<>>
    /\ dominance' = <<CheckBoundingBox(CurrentRotation, boxes[1], boxes[2]),
                      CheckBoundingBox(CurrentRotation, boxes[2], boxes[1])>>
    /\ UNCHANGED <<boxes, arenaVars, scenarioVars, scanVars, viewVars, sessionVars, arrVars, drawVars, peerVars, pc>>

InitBoxes ==
    /\ CurrentRotation \in Rotations
    /\ DPI = ViewDPI(CurrentRotation)
    /\ InteractionType = VIEWPORT_INTERACTION_ITEM_SPRITE
    /\ InitOwnSession
    /\ peer = NewPeer(0)
    /\ calls = NoCalls
    /\ boxes \in GridBoxes \X GridBoxes
    /\ dominance = <<>>
    /\ NoScenario

NextBoxes == CallCheckBoundingBox

SpecBoxes == InitBoxes /\ [][NextBoxes]_vars

(***************************************************************************)
(* PaintSessionGenerate: the staircase scan over the columns of the map.   *)
(* The two emitters, tile_element_paint_setup and sprite_paint_setup, are  *)
(* recorded as calls.                                                      *)
(***************************************************************************)
\* v & 0xFFE0 of an int16_t or int v.
And0xFFE0(v) == LET u == v % 65536 IN u - (u % 32)

\* mapTile before the switch: the clip origin on the 32-pixel grid.
ClipTile(dpi) == <<Int16(And0xFFE0(dpi.x)), Int16(And0xFFE0(dpi.y - 16))>>

\* mapTile at the head of the loop.
ScanStart(dpi, rotation) ==
    LET m == ClipTile(dpi)
        half_x == m[1] \div 2
        x == CASE rotation = 0 -> Int16(m[2] - half_x)
               [] rotation = 1 -> Int16(-m[2] - half_x)
               [] rotation = 2 -> Int16(-m[2] + half_x)
               [] rotation = 3 -> Int16(m[2] + half_x)
        \* The second assignment reads mapTile.y, which the first has not touched.
        y == CASE rotation = 0 -> Int16(m[2] + half_x)
               [] rotation = 1 -> Int16(m[2] - half_x - 16)
               [] rotation = 2 -> Int16(-m[2] - half_x)
               [] rotation = 3 -> Int16(-m[2] + half_x - 16)
    IN  <<Int16(And0xFFE0(x)), Int16(And0xFFE0(y))>>

\* uint16_t num_vertical_quadrants = (dpi->height + 2128) >> 5.
ScanSteps(dpi) == ((dpi.height + 2128) \div 32) % 65536

Emit(emitter, x, y) == [emitter |-> emitter, x |-> x, y |-> y]

\* One pass of the loop body that leaves out the first sprite_paint_setup call.
ScanCalls_SidesOnly(m, rotation) ==
    LET x == m[1]
        y == m[2]
    IN  CASE rotation = 0 ->
               << Emit("tile_element_paint_setup", x, y),
                  Emit("sprite_paint_setup", x - 32, y + 32),
                  Emit("tile_element_paint_setup", x, y + 32),
                  Emit("sprite_paint_setup", x, y + 32),
                  Emit("sprite_paint_setup", Int16(x + 32), y) >>
          [] rotation = 1 ->
               << Emit("tile_element_paint_setup", x, y),
                  Emit("sprite_paint_setup", x - 32, y - 32),
                  Emit("tile_element_paint_setup", x - 32, y),
                  Emit("sprite_paint_setup", x - 32, y),
                  Emit("sprite_paint_setup", x, Int16(y + 32)) >>
          [] rotation = 2 ->
               << Emit("tile_element_paint_setup", x, y),
                  Emit("sprite_paint_setup", x + 32, y - 32),
                  Emit("tile_element_paint_setup", x, y - 32),
                  Emit("sprite_paint_setup", x, y - 32),
                  Emit("sprite_paint_setup", Int16(x - 32), y) >>
          [] rotation = 3 ->
               << Emit("tile_element_paint_setup", x, y),
                  Emit("sprite_paint_setup", x + 32, y + 32),
                  Emit("tile_element_paint_setup", x + 32, y),
                  Emit("sprite_paint_setup", x + 32, y),
                  Emit("sprite_paint_setup", x, Int16(y - 32)) >>

\* The six calls of one pass of the loop body, in order.
ScanCalls(m, rotation) ==
    LET x == m[1]
        y == m[2]
    IN  CASE rotation = 0 ->
               << Emit("tile_element_paint_setup", x, y),
                  Emit("sprite_paint_setup", x, y),
                  Emit("sprite_paint_setup", x - 32, y + 32),
                  Emit("tile_element_paint_setup", x, y + 32),
                  Emit("sprite_paint_setup", x, y + 32),
                  Emit("sprite_paint_setup", Int16(x + 32), y) >>
          [] rotation = 1 ->
               << Emit("tile_element_paint_setup", x, y),
                  Emit("sprite_paint_setup", x, y),
                  Emit("sprite_paint_setup", x - 32, y - 32),
                  Emit("tile_element_paint_setup", x - 32, y),
                  Emit("sprite_paint_setup", x - 32, y),
                  Emit("sprite_paint_setup", x, Int16(y + 32)) >>
          [] rotation = 2 ->
               << Emit("tile_element_paint_setup", x, y),
                  Emit("sprite_paint_setup", x, y),
                  Emit("sprite_paint_setup", x + 32, y - 32),
                  Emit("tile_element_paint_setup", x, y - 32),
                  Emit("sprite_paint_setup", x, y - 32),
                  Emit("sprite_paint_setup", Int16(x - 32), y) >>
          [] rotation = 3 ->
               << Emit("tile_element_paint_setup", x, y),
                  Emit("sprite_paint_setup", x, y),
                  Emit("sprite_paint_setup", x + 32, y + 32),
                  Emit("tile_element_paint_setup", x + 32, y),
                  Emit("sprite_paint_setup", x + 32, y),
                  Emit("sprite_paint_setup", x, Int16(y - 32)) >>

\* A pass that moves mapTile along its first axis only.
ScanAdvance_OneAxis(m, rotation) ==
    CASE rotation = 0 -> <<Int16(m[1] + 32), m[2]>>
      [] rotation = 1 -> <<Int16(m[1] - 32), m[2]>>
      [] rotation = 2 -> <<Int16(m[1] - 32), m[2]>>
      [] rotation = 3 -> <<Int16(m[1] + 32), m[2]>>

\* mapTile after one pass of the loop body.
ScanAdvance(m, rotation) ==
    CASE rotation = 0 -> <<Int16(m[1] + 32), Int16(m[2] + 32)>>
      [] rotation = 1 -> <<Int16(m[1] - 32), Int16(m[2] + 32)>>
      [] rotation = 2 -> <<Int16(m[1] - 32), Int16(m[2] - 32)>>
      [] rotation = 3 -> <<Int16(m[1] + 32), Int16(m[2] - 32)>>

\* The clip rectangles of the scans: the view of DrawDPI, one that is not on
\* the grid, and one at the edge of the 16-bit range.
GenerateClips ==
    { [x |-> -256, y |-> -256, width |-> 512, height |-> 512, zoom_level |-> 0],
      [x |-> 1269, y |-> 845, width |-> 64, height |-> 37, zoom_level |-> 0],
      [x |-> -32768, y |-> 16000, width |-> 64, height |-> 0, zoom_level |-> 0] }

InitGenerate ==
    /\ CurrentRotation = 0
    /\ DPI \in GenerateClips
    /\ InteractionType = VIEWPORT_INTERACTION_ITEM_SPRITE
    /\ InitSession

\* PaintSessionGenerate up to the head of the loop; rotation is
\* get_current_rotation().
EnterPaintSessionGenerate(rotation) ==
    /\ pc = "generate"
    /\ scan = "idle"
    /\ CurrentRotation' = rotation
    /\ mapTile' = ScanStart(DPI, rotation)
    /\ num_vertical_quadrants' = ScanSteps(DPI)
    /\ scan' = "loop"
    /\ UNCHANGED <<boxVars, arenaVars, scenarioVars, DPI, InteractionType, sessionVars, arrVars, drawVars, peerVars,
                   pc, emitted>>

\* One pass of the loop body.
LoopPaintSessionGenerate ==
    /\ scan = "loop"
    /\ num_vertical_quadrants > 0
    /\ emitted' = emitted \o ScanCalls(mapTile, CurrentRotation)
    /\ mapTile' = ScanAdvance(mapTile, CurrentRotation)
    /\ num_vertical_quadrants' = num_vertical_quadrants - 1
    /\ UNCHANGED <<boxVars, arenaVars, scenarioVars, viewVars, sessionVars, arrVars, drawVars, peerVars, pc, scan>>

\* The loop's exit.
LeavePaintSessionGenerate ==
    /\ scan = "loop"
    /\ num_vertical_quadrants = 0
    /\ scan' = "done"
    /\ UNCHANGED <<boxVars, arenaVars, scenarioVars, viewVars, sessionVars, arrVars, drawVars, peerVars, pc, mapTile,
                   num_vertical_quadrants, emitted>>

NextGenerate ==
    \/ \E rotation \in Rotations : EnterPaintSessionGenerate(rotation)
    \/ LoopPaintSessionGenerate
    \/ LeavePaintSessionGenerate

SpecGenerate == InitGenerate /\ [][NextGenerate]_vars

(***************************************************************************)
(* Chains.                                                                 *)
(***************************************************************************)
\* The entries from ps on through next_quadrant_ps, at most n of them; the
\* walk ends at NULL, and ends with Indeterminate if it meets an unset link.
RECURSIVE Walk(_, _, _)
Walk(p, ps, n) ==
    IF ps = NULL \/ n = 0 THEN <<>>
    ELSE IF ps = Indeterminate THEN <<Indeterminate>>
    ELSE <<ps>> \o Walk(p, p[ps].next_quadrant_ps, n - 1)

\* The walk from ps ends at NULL within the pool's size.
NullTerminated(p, ps) ==
    LET w == Walk(p, ps, Len(p) + 1)
    IN  Len(w) <= Len(p) /\ \A k \in 1 .. Len(w) : w[k] # Indeterminate

\* The chain PaintDrawStructs walks: from PaintHead.next_quadrant_ps.
ArrangedChain == Walk(pool, PaintHeadNext, Len(pool) + 1)

\* The entries of that chain.
ChainSet == {ArrangedChain[k] : k \in 1 .. Len(ArrangedChain)}

\* The entries in the list of quadrant i.
QuadrantList(i) == Walk(pool, QuadrantAt(Quadrants, i), Len(pool) + 1)

\* The entries in some quadrant list.
Bucketed ==
    UNION {{QuadrantList(i)[k] : k \in 1 .. Len(QuadrantList(i))} : i \in DOMAIN Quadrants}

Position(chain, e) == CHOOSE k \in 1 .. Len(chain) : chain[k] = e

Precedes(chain, a, b) == Position(chain, a) < Position(chain, b)

LogEvents(kind) == {k \in 1 .. Len(arrLog) : arrLog[k].ev = kind}

Dominates(s, t) ==
    CheckBoundingBox(CurrentRotation, pool[s].bounds, pool[t].bounds)

(***************************************************************************)
(* The arrangement: properties of SpecArrange.                             *)
(***************************************************************************)
\* chain holds exactly the entries of the set es, each of them once.
IsPermutation(chain, es) ==
    /\ \A k \in 1 .. Len(chain) : chain[k] \in es
    /\ \A e \in es : \E k \in 1 .. Len(chain) : chain[k] = e
    /\ \A j, k \in 1 .. Len(chain) : chain[j] = chain[k] => j = k

\* C1: PaintSessionArrange leaves a chain from the head that ends at null
\* within the pool's size and holds exactly the entries that were in the
\* quadrant lists before it, each of them once.
C1_ArrangePermutation ==
    [][(pc = "generate" /\ pc' = "arranged") =>
          /\ NullTerminated(pool', PaintHeadNext')
          /\ IsPermutation(ArrangedChain', Bucketed)]_vars

\* C1 witness: three entries arranged, two of them with identical flat boxes
\* that dominate one another, and an entry moved.
C1_Witness ==
    /\ pc = "arranged"
    /\ Len(ArrangedChain) = 3
    /\ LogEvents("splice") # {}
    /\ \E s, t \in 1 .. Len(pool) :
          /\ s # t
          /\ pool[s].bounds = pool[t].bounds
          /\ Dominates(s, t) /\ Dominates(t, s)

\* C2: PaintSessionArrange ends, no helper call using up its step budget,
\* and within one window no entry is taken as the reference entry twice.
C2_ArrangeTerminates ==
    /\ ~arrTimeout
    /\ \A j, k \in LogEvents("reference") :
          (arrLog[j].s = arrLog[k].s /\ arrLog[j].w = arrLog[k].w) => j = k

\* C2 witness: an arrangement of two entries that dominate one another, in
\* which one of them was moved in front of the other.
C2_Witness ==
    /\ pc = "arranged"
    /\ ~arrTimeout
    /\ \E k \in LogEvents("splice") :
          /\ Dominates(arrLog[k].s, arrLog[k].t)
          /\ Dominates(arrLog[k].t, arrLog[k].s)

\* s dominates t, t does not dominate s, and their quadrants are the same or
\* next to one another.
OneWayAdjacent(s, t) ==
    /\ s # t
    /\ pool[s].quadrant_index - pool[t].quadrant_index \in {-1, 0, 1}
    /\ Dominates(s, t)
    /\ ~Dominates(t, s)

\* C3 as stated: in the arranged chain every entry t that an entry s of the
\* same or the neighbouring quadrant dominates one way precedes s, whatever
\* else is in the chain.
C3_AnyNumber ==
    pc = "arranged" =>
        \A s, t \in ChainSet : OneWayAdjacent(s, t) => Precedes(ArrangedChain, t, s)

\* C3: when s and t are the only two entries of the arranged chain, s
\* dominates t one way and their quadrants are the same or next to one
\* another, t precedes s in the chain.
C3_TwoPrimitives ==
    (pc = "arranged" /\ Len(ArrangedChain) = 2) =>
        \A s, t \in ChainSet : OneWayAdjacent(s, t) => Precedes(ArrangedChain, t, s)

\* C3 witness: two entries, the dominated one added last and so first in its
\* list, which the arrangement had to move.
C3_Witness ==
    /\ pc = "arranged"
    /\ Len(ArrangedChain) = 2
    /\ \E k \in LogEvents("splice") : OneWayAdjacent(arrLog[k].s, arrLog[k].t)

\* The session holds the two entries of the scenario and is arranged.
BoundsA == [x |-> 0, y |-> 0, z |-> 0, x_end |-> 10, y_end |-> 10, z_end |-> 10]
BoundsB == [x |-> 5, y |-> 5, z |-> 0, x_end |-> 15, y_end |-> 15, z_end |-> 5]

ScenarioArranged(a, b) ==
    /\ pc = "arranged"
    /\ CurrentRotation = 0
    /\ Len(pool) = 2
    /\ pool[a].bounds = BoundsA
    /\ pool[b].bounds = BoundsB

\* C9 as stated: in the scenario B precedes A in the arranged chain, in
\* whichever order the two were added.
C9_AnyInsertionOrder ==
    \A a, b \in 1 .. Len(pool) :
        ScenarioArranged(a, b) => Precedes(ArrangedChain, b, a)

\* C9: in the scenario, when A was added before B, B precedes A in the
\* arranged chain.
C9_AddedAFirst ==
    ScenarioArranged(1, 2) => Precedes(ArrangedChain, 2, 1)

\* C9 witness: the scenario with A added first, arranged.
C9_Witness == ScenarioArranged(1, 2) /\ ArrangedChain = <<2, 1>>

(***************************************************************************)
(* The creation operations: properties of Spec.                            *)
(***************************************************************************)
\* What every creation call would return and leave in the current state.
ParentResults ==
    {PaintAddImageAsParent(Session, CurrentRotation, DPI, inp) : inp \in ParentInputs}

OrphanResults ==
    {PaintAddImageAsOrphan(Session, CurrentRotation, DPI, inp, g) :
        inp \in OrphanInputs, g \in GarbageIndex}

ChildResults ==
    {PaintAddImageAsChild(Session, CurrentRotation, DPI, inp, g) :
        inp \in ChildInputs, g \in GarbageIndex}

AttachResults ==
    {PaintAttachToPreviousPS(Session, inp) : inp \in AttachInputs}
        \cup {PaintAttachToPreviousAttach(Session, inp) : inp \in AttachInputs}

MoneyResults == {PaintFloatingMoneyEffect(Session, inp) : inp \in MoneyInputs}

\* C4: when the pool holds as many entries as its capacity, the parent, the
\* orphan and the child call return null, both attach calls return false,
\* the money effect adds no text entry, and no call takes the pool beyond
\* its capacity.
C4_FullPoolRejects ==
    Len(pool) = MaxEntries =>
        /\ \A r \in ParentResults \cup OrphanResults \cup ChildResults :
              r.ret = NULL /\ Len(r.s.pool) <= MaxEntries
        /\ \A r \in AttachResults : r.ret = FALSE /\ Len(r.s.pool) <= MaxEntries
        /\ \A r \in MoneyResults : r.s.pool = pool /\ r.s.LastPSString = LastPSString

\* C4 witness: a pool filled by a mix of a root, an attached and a text
\* entry, with a last primitive for the child and attach calls to work on.
C4_Witness ==
    /\ pc = "generate"
    /\ Len(pool) = MaxEntries
    /\ LastPS # NULL
    /\ {pool[i].kind : i \in 1 .. Len(pool)} = {"ps", "attached", "string"}

\* The session r.s has the pool, with every entry's links, the quadrant
\* lists, the back and front index and the text chain of the current state,
\* and is arranged as the current state is.
SameSession(r) ==
    /\ r.s.pool = pool
    /\ r.s.Quadrants = Quadrants
    /\ r.s.QuadrantBackIndex = QuadrantBackIndex
    /\ r.s.QuadrantFrontIndex = QuadrantFrontIndex
    /\ r.s.PSStringHead = PSStringHead
    /\ r.s.LastPSString = LastPSString
    /\ ArrangeOutcomes(r.s, CurrentRotation) = ArrangeOutcomes(Session, CurrentRotation)

\* C5: a creation call that fails (null from the calls that return an entry,
\* false from the others) leaves the pool, with every entry's links, the
\* quadrant lists, the back and front index and the text chain as they were,
\* so that the arrangement of what it leaves is the arrangement of what was
\* there.
C5_FailedAttemptFrame ==
    pc = "generate" =>
        /\ \A r \in ParentResults \cup OrphanResults \cup ChildResults :
              r.ret = NULL => SameSession(r)
        /\ \A r \in AttachResults \cup MoneyResults :
              r.ret = FALSE => SameSession(r)

\* C5 witness: a session with a root that has an attached entry, left by a
\* parent or orphan call that failed (which alone leaves LastPS null), and
\* in which a call fails for missing image metadata.
C5_Witness ==
    /\ pc = "generate"
    /\ LastPS = NULL
    /\ DOMAIN Quadrants # {}
    /\ \E i \in 1 .. Len(pool) : pool[i].kind = "ps" /\ pool[i].attached_ps # NULL
    /\ ~NoPaintStructsAvailable(pool)
    /\ PaintAddImageAsParent(Session, CurrentRotation, DPI, NoImageBox).ret = NULL

\* C10: with no last attached entry, PaintAttachToPreviousAttach returns
\* what PaintAttachToPreviousPS returns and leaves the session it leaves;
\* with no last primitive either, it returns false and leaves the session
\* as it was.
C10_AttachFallsBack ==
    LastAttachedPS = NULL =>
        \A inp \in AttachInputs :
            /\ PaintAttachToPreviousAttach(Session, inp)
                   = PaintAttachToPreviousPS(Session, inp)
            /\ LastPS = NULL =>
                   PaintAttachToPreviousAttach(Session, inp) = [s |-> Session, ret |-> FALSE]

\* C10 witness: a last primitive, no last attached entry, room in the pool:
\* the call attaches its entry to the last primitive.
C10_Witness ==
    /\ pc = "generate"
    /\ LastAttachedPS = NULL
    /\ LastPS # NULL
    /\ \E inp \in AttachInputs :
          LET r == PaintAttachToPreviousAttach(Session, inp)
          IN  r.ret = TRUE /\ r.s.pool[LastPS].attached_ps = Len(pool) + 1

(***************************************************************************)
(* The quadrant table: properties of SpecQuadrant.                         *)
(***************************************************************************)
InRange(index) ==
    /\ QuadrantBackIndex <= index
    /\ index <= QuadrantFrontIndex
    /\ 0 <= index
    /\ index <= MAX_PAINT_QUADRANTS - 1

\* C6 as stated: the quadrant_index of every paint_struct of the session,
\* root, orphan or child, lies between the back and the front index and
\* inside the table.
C6_AllPrimitives ==
    \A i \in 1 .. Len(pool) : pool[i].kind = "ps" => InRange(pool[i].quadrant_index)

\* C6: the quadrant_index of every entry in a quadrant list lies between the
\* back and the front index and inside the table.
C6_BucketedPrimitives ==
    \A e \in Bucketed : InRange(pool[e].quadrant_index)

\* C6 witness: a root whose position hash lies below the table, put in
\* quadrant 0, next to a paint_struct that is in no quadrant list.
C6_Witness ==
    /\ pc = "generate"
    /\ \E e \in Bucketed :
          /\ CalculatePositionHash(pool[e].bounds, CurrentRotation) < 0
          /\ pool[e].quadrant_index = 0
    /\ \E i \in 1 .. Len(pool) : pool[i].kind = "ps" /\ i \notin Bucketed

\* The quadrants whose list is not empty.
Occupied == {i \in DOMAIN Quadrants : Quadrants[i] # NULL}

\* C7: while some quadrant list is not empty, the back index is the smallest
\* and the front index the largest occupied quadrant, and back <= front;
\* while all are empty, the back index is UINT32_MAX and the front index 0,
\* and the arrangement leaves PaintHead.next_quadrant_ps null.
C7_BackFrontRange ==
    IF Occupied # {}
    THEN /\ QuadrantBackIndex <= QuadrantFrontIndex
         /\ QuadrantBackIndex \in Occupied
         /\ QuadrantFrontIndex \in Occupied
         /\ \A i \in Occupied : QuadrantBackIndex <= i /\ i <= QuadrantFrontIndex
    ELSE /\ QuadrantBackIndex = UINT32_MAX
         /\ QuadrantFrontIndex = 0
         /\ pc = "arranged" => (PaintHeadNext = NULL /\ ArrangedChain = <<>>)

\* C7 witness: three occupied quadrants, the first root added in neither the
\* back nor the front one.
C7_Witness ==
    /\ Cardinality(Occupied) = 3
    /\ QuadrantBackIndex < pool[1].quadrant_index
    /\ pool[1].quadrant_index < QuadrantFrontIndex

(***************************************************************************)
(* The clip test: properties of SpecCull.                                  *)
(***************************************************************************)
\* Some pixel of the image's footprint is a pixel of the clip rectangle.
FootprintOverlapsClip(inp) ==
    LET c == ImagePos(CurrentRotation, inp.offset)
        g1 == gfx_get_g1_element(inp.image_id)
        left == c[1] + g1.x_offset
        bottom == c[2] + g1.y_offset
    IN  \E px \in left .. left + g1.width - 1, py \in bottom .. bottom + g1.height - 1 :
            /\ px \in DPI.x .. DPI.x + DPI.width - 1
            /\ py \in DPI.y .. DPI.y + DPI.height - 1

\* C8: with room in the pool and metadata for the image, the builder returns
\* a primitive exactly when the image's footprint and the clip rectangle
\* have a pixel in common.
C8_CullingCorrect ==
    \A inp \in CullInputs :
        (~NoPaintStructsAvailable(pool) /\ ~gfx_get_g1_element(inp.image_id).is_null) =>
            (sub_9819_c(pool, CurrentRotation, DPI, inp).has_value
                <=> FootprintOverlapsClip(inp))

\* C8 witness: a primitive in the pool whose footprint has exactly its last
\* pixel column inside the clip rectangle, which has room for another.
C8_Witness ==
    /\ Len(pool) >= 1
    /\ ~NoPaintStructsAvailable(pool)
    /\ pool[1].image_id = FlatBox.image_id
    /\ pool[1].x + gfx_get_g1_element(pool[1].image_id).x_offset
           + gfx_get_g1_element(pool[1].image_id).width = DPI.x + 1
    /\ FootprintOverlapsClip(FlatBox)

(***************************************************************************)
(* The cursors: properties of Spec.                                        *)
(***************************************************************************)
\* A parent or orphan call that returns null leaves both cursors null.
FailedRootAddClearsCursors ==
    \A r \in ParentResults \cup OrphanResults :
        r.ret = NULL => (r.s.LastPS = NULL /\ r.s.LastAttachedPS = NULL)

\* With no last primitive there is no last attached entry, and both attach
\* calls return false and leave the session as it is.
NoAntecedentNoAttach ==
    LastPS = NULL =>
        /\ LastAttachedPS = NULL
        /\ \A r \in AttachResults : r = [s |-> Session, ret |-> FALSE]

\* A step sets a cursor to null or to the entry it has just created, and
\* changes the attachment links of no entry but the ones under the cursors.
CursorsFollowCreation ==
    /\ LastPS' # LastPS => (LastPS' = NULL \/ (LastPS' = Len(pool') /\ Len(pool') > Len(pool)))
    /\ LastAttachedPS' # LastAttachedPS =>
           (LastAttachedPS' = NULL
               \/ (LastAttachedPS' = Len(pool') /\ Len(pool') > Len(pool)))
    /\ \A i \in 1 .. Len(pool) :
           /\ pool'[i].attached_ps # pool[i].attached_ps => i = LastPS
           /\ (pool[i].kind = "attached" /\ pool'[i].next # pool[i].next)
                  => i = LastAttachedPS

\* C11: a parent or orphan call that returns null leaves both cursors null;
\* while the last-primitive cursor is null both attach calls return false
\* and take no pool slot; and since a cursor only ever moves to a newly
\* created entry and only the entries under the cursors get attachments,
\* nothing is attached to an entry created before the failed call.
C11_NoAntecedentFails ==
    /\ [](FailedRootAddClearsCursors /\ NoAntecedentNoAttach)
    /\ [][CursorsFollowCreation]_vars

\* C11 witness: a root with an attached entry, then a failed root add:
\* cursors null, room in the pool, and the attach calls fail.
C11_Witness ==
    /\ pc = "generate"
    /\ LastPS = NULL
    /\ LastAttachedPS = NULL
    /\ ~NoPaintStructsAvailable(pool)
    /\ \E i \in 1 .. Len(pool) : pool[i].kind = "ps" /\ pool[i].attached_ps # NULL
    /\ \A r \in AttachResults : r.ret = FALSE /\ Len(r.s.pool) = Len(pool)

(***************************************************************************)
(* The child call: properties of Spec.                                     *)
(***************************************************************************)
\* The paint_structs of the pool.
PaintStructs == {i \in 1 .. Len(pool) : pool[i].kind = "ps"}

\* The paint_structs that are the child of no entry: the ones a parent or an
\* orphan call made.
NonChildren == {i \in PaintStructs : \A j \in PaintStructs : pool[j].children # i}

\* The largest member of a non-empty set of entries.
Latest(es) == CHOOSE i \in es : \A j \in es : j <= i

\* With no last primitive the child call is the parent call.
ChildWithoutParentIsParent ==
    LastPS = NULL =>
        \A inp \in ChildInputs, g \in GarbageIndex :
            PaintAddImageAsChild(Session, CurrentRotation, DPI, inp, g)
                = PaintAddImageAsParent(Session, CurrentRotation, DPI, inp)

\* The entry r.ret is new and has been put in no quadrant list.
NewAndUnbucketed(r) ==
    /\ r.ret = Len(pool) + 1
    /\ Len(r.s.pool) = Len(pool) + 1
    /\ r.s.Quadrants = Quadrants
    /\ r.s.QuadrantBackIndex = QuadrantBackIndex
    /\ r.s.QuadrantFrontIndex = QuadrantFrontIndex
    /\ \A i \in 1 .. Len(pool) : r.s.pool[i].next_quadrant_ps = pool[i].next_quadrant_ps

\* C12 as stated: with no last primitive the child call is the parent call;
\* otherwise every successful child call makes its entry the child of the
\* entry the last successful root add made, and puts it in no quadrant.
C12_ChildOfLastRoot ==
    /\ ChildWithoutParentIsParent
    /\ LastPS # NULL =>
           \A r \in ChildResults :
               r.ret # NULL =>
                   /\ r.s.pool[Latest(NonChildren)].children = r.ret
                   /\ NewAndUnbucketed(r)

\* C12: with no last primitive the child call is the parent call; otherwise
\* the last primitive is the paint_struct created last, by a parent, an
\* orphan or a child call, and every successful child call makes its entry
\* the child of that one, leaves every other child link as it was, and puts
\* the entry in no quadrant.
C12_ChildOfLastPrimitive ==
    /\ ChildWithoutParentIsParent
    /\ LastPS # NULL =>
           /\ LastPS = Latest(PaintStructs)
           /\ pool[LastPS].children = NULL
           /\ \A r \in ChildResults :
                  r.ret # NULL =>
                      /\ r.s.pool[LastPS].children = r.ret
                      /\ \A i \in PaintStructs \ {LastPS} :
                             r.s.pool[i].children = pool[i].children
                      /\ r.s.LastPS = r.ret
                      /\ NewAndUnbucketed(r)

\* C12 witness: the last primitive is itself a child, and a further child
\* call succeeds.
C12_Witness ==
    /\ pc = "generate"
    /\ LastPS # NULL
    /\ \E i \in PaintStructs : pool[i].children = LastPS
    /\ \E r \in ChildResults : r.ret # NULL

(***************************************************************************)
(* C13, C14: the position of a drawn primitive.                            *)
(***************************************************************************)
\* The blits of paint_structs.
PSBlits == {blits[k] : k \in {k \in DOMAIN blits : blits[k].kind = "ps"}}

\* The screen position stored in entry e, as PaintDrawStruct reads it.
StoredPosition(e) == <<Int16(pool[e].x), Int16(pool[e].y)>>

\* v is s floor-aligned to a multiple of g.
FloorAligned(v, s, g) == v % g = 0 /\ v <= s /\ s < v + g

\* Blit b is at the stored position of its entry floor-aligned to g.
BlitAligned(b, g) ==
    /\ FloorAligned(b.x, StoredPosition(b.entry)[1], g)
    /\ FloorAligned(b.y, StoredPosition(b.entry)[2], g)

\* The granularity at zoom level z for sprite type t.
Granularity(t, z) ==
    IF t = VIEWPORT_INTERACTION_ITEM_SPRITE
    THEN IF z = 0 THEN 1 ELSE IF z = 1 THEN 2 ELSE 4
    ELSE 1

\* C13 as stated: every drawn primitive, whatever its sprite type, is drawn
\* at its stored position floor-aligned to 2 ^ zoom_level: the stored
\* position itself at zoom level 0, a multiple of 2, 4, 8 at levels 1, 2, 3.
C13_AlignedToZoom ==
    pc = "drawn" => \A b \in PSBlits : BlitAligned(b, 2 ^ DPI.zoom_level)

\* C13: a drawn primitive of sprite type SPRITE is drawn at its stored
\* position floor-aligned to 2 at zoom level 1 and to 4 at zoom levels 2 and
\* 3; at zoom level 0, and for every other sprite type at every zoom level,
\* a primitive is drawn at its stored position.
C13_SpritesAligned ==
    pc = "drawn" =>
        \A b \in PSBlits :
            BlitAligned(b, Granularity(pool[b.entry].sprite_type, DPI.zoom_level))

\* C13 witness: at zoom level 3 a primitive of type SPRITE has been drawn
\* away from its stored position, and one of another type with an odd
\* stored position has been drawn too.
C13_Witness ==
    /\ pc = "drawn"
    /\ DPI.zoom_level = 3
    /\ \E b \in PSBlits :
           /\ pool[b.entry].sprite_type = VIEWPORT_INTERACTION_ITEM_SPRITE
           /\ <<b.x, b.y>> # StoredPosition(b.entry)
    /\ \E b \in PSBlits :
           /\ pool[b.entry].sprite_type # VIEWPORT_INTERACTION_ITEM_SPRITE
           /\ StoredPosition(b.entry)[1] % 2 = 1

\* C14 as stated: at zoom level 2 a primitive of any sprite type stored at
\* (13, 7) is drawn at (12, 4).
C14_AnyTypeSnapped ==
    (pc = "drawn" /\ DPI.zoom_level = 2) =>
        \A b \in PSBlits :
            StoredPosition(b.entry) = <<13, 7>> => <<b.x, b.y>> = <<12, 4>>

\* C14: at zoom level 2 a primitive of sprite type SPRITE stored at (13, 7)
\* is drawn at (12, 4), and one of another sprite type at (13, 7).
C14_SpriteSnapped ==
    (pc = "drawn" /\ DPI.zoom_level = 2) =>
        \A b \in PSBlits :
            StoredPosition(b.entry) = <<13, 7>> =>
                <<b.x, b.y>> =
                    IF pool[b.entry].sprite_type = VIEWPORT_INTERACTION_ITEM_SPRITE
                    THEN <<12, 4>> ELSE <<13, 7>>

\* C14 witness: at zoom level 2 a primitive of type SPRITE stored at (13, 7)
\* has been drawn.
C14_Witness ==
    /\ pc = "drawn"
    /\ DPI.zoom_level = 2
    /\ \E b \in PSBlits :
           /\ pool[b.entry].sprite_type = VIEWPORT_INTERACTION_ITEM_SPRITE
           /\ StoredPosition(b.entry) = <<13, 7>>
           /\ <<b.x, b.y>> = <<12, 4>>

(***************************************************************************)
(* C15: the arrangement is a function of the rotation and the additions.   *)
(***************************************************************************)
\* The chain of arranger state st.
ChainOf(st) ==
    LET p == [i \in 1 .. Len(pool) |-> [next_quadrant_ps |-> st.nx[i]]]
    IN  Walk(p, st.nx[HEAD], Len(pool) + 1)

\* The chains the arrangement of the session can end with, one for each
\* value the quadrant_flags fields can hold when it starts.
ArrangedChains ==
    {ChainOf(PaintSessionArrange(Session, CurrentRotation, g)) : g \in GarbageFlags}

\* a and b are disjoint along all three axes.
DisjointBoxes(a, b) ==
    LET A == pool[a].bounds
        B == pool[b].bounds
    IN  /\ A.x_end < B.x \/ B.x_end < A.x
        /\ A.y_end < B.y \/ B.y_end < A.y
        /\ A.z_end < B.z \/ B.z_end < A.z

\* e is in chain exactly once.
Once(chain, e) == Cardinality({k \in 1 .. Len(chain) : chain[k] = e}) = 1

\* C15: the additions made and the rotation determine one final chain,
\* whatever the memory of the entries held before; two primitives with
\* boxes disjoint along all three axes are each in it once, so in one
\* relative order.
C15_Deterministic ==
    pc = "generate" =>
        /\ Cardinality(ArrangedChains) = 1
        /\ \A chain \in ArrangedChains :
               \A a \in Bucketed, b \in Bucketed :
                   (a # b /\ DisjointBoxes(a, b)) => Once(chain, a) /\ Once(chain, b)

\* C15 witness: a session with two primitives whose boxes are disjoint along
\* all three axes, in the same or neighbouring quadrants, and one more, is
\* about to be arranged.
C15_Witness ==
    /\ pc = "generate"
    /\ Len(pool) >= 3
    /\ \E a \in Bucketed, b \in Bucketed :
           /\ a # b
           /\ DisjointBoxes(a, b)
           /\ pool[a].quadrant_index - pool[b].quadrant_index \in {-1, 0, 1}

(***************************************************************************)
(* C16: two sessions, interleaved.                                         *)
(***************************************************************************)
\* The session the calls cs build on a new session with no other session
\* around.
RECURSIVE RunAlone(_, _, _, _)
RunAlone(s, rotation, dpi, cs) ==
    IF cs = <<>> THEN s
    ELSE RunAlone(ApplyCall(s, rotation, dpi, Head(cs)), rotation, dpi, Tail(cs))

Alone(rotation, dpi, cs) == RunAlone(NewSession, rotation, dpi, cs)

\* The chains the arrangement of that session can end with.
AloneChains(rotation, dpi, cs) ==
    LET s == Alone(rotation, dpi, cs)
    IN  {Walk(ArrangedPool(s.pool, st), st.nx[HEAD], Len(s.pool) + 1) :
            st \in ArrangeOutcomes(s, rotation)}

\* The chain of the second session.
PeerChain == Walk(peer.s.pool, peer.head, Len(peer.s.pool) + 1)

\* Each session is what its own calls build; once arranged, its chain is the
\* chain its own calls give.
SessionsAsAlone ==
    /\ pc = "generate" => Session = Alone(CurrentRotation, DPI, calls[1])
    /\ pc = "arranged" => ArrangedChain \in AloneChains(CurrentRotation, DPI, calls[1])
    /\ peer.pc = "generate" => peer.s = Alone(peer.rotation, peer.dpi, calls[2])
    /\ peer.pc = "arranged" => PeerChain \in AloneChains(peer.rotation, peer.dpi, calls[2])

\* A step that is a call on one session leaves the pool, the quadrant
\* table, the cursors and the chain of the other as they were.
OneSessionWritten ==
    /\ calls'[1] # calls[1] \/ pc' # pc => peer' = peer
    /\ calls'[2] # calls[2] \/ peer.pc' # peer.pc =>
           UNCHANGED <<sessionVars, PaintHeadNext>>

Orphans == {i \in PaintStructs : pool[i].image_id = OrphanBox.image_id}

\* What an orphan call would return now, for each value of the unset field.
OrphanCallResults ==
    {PaintAddImageAsOrphan(Session, CurrentRotation, DPI, OrphanBox, g) : g \in GarbageIndex}

\* C17: a successful orphan call takes one pool slot, returns the new entry
\* and leaves every quadrant list and the back and front indices as they
\* were; no call links the entry afterwards, and it is in no quadrant list,
\* not in the arranged chain, and PaintDrawStructs does not draw it.
C17_OrphanNeverDrawn ==
    /\ pc = "generate" =>
           /\ \A r \in OrphanCallResults : r.ret # NULL => NewAndUnbucketed(r)
           /\ Orphans \cap Bucketed = {}
    /\ pc \in {"arranged", "drawn"} => Orphans \cap ChainSet = {}
    /\ pc = "drawn" => \A k \in DOMAIN blits : blits[k].entry \notin Orphans

\* C17 witness: a session with an orphan, a bucketed primitive added after
\* it and something attached has been drawn.
C17_Witness ==
    /\ pc = "drawn"
    /\ \E o \in Orphans : \E i \in ChainSet : o < i
    /\ Len(blits) >= 2

(***************************************************************************)
(* C18: where a splice puts the entry it moves.                            *)
(***************************************************************************)
\* The entries that follow a in the links nx up to b, b left out; Indeterminate
\* at the end if b is not met within n links.
RECURSIVE Between(_, _, _, _)
Between(nx, a, b, n) ==
    IF nx[a] = b THEN <<>>
    ELSE IF n = 0 \/ nx[a] = NULL THEN <<Indeterminate>>
    ELSE <<nx[a]>> \o Between(nx, nx[a], b, n - 1)

\* The entries spliced before event k in the scan of the same reference
\* entry in the same window.
SplicedEarlier(k) ==
    {arrLog[j].t : j \in {j \in LogEvents("splice") :
                             /\ j < k
                             /\ arrLog[j].s = arrLog[k].s
                             /\ arrLog[j].w = arrLog[k].w}}

\* C18 as stated: right after every splice the reference entry S is linked
\* to the moved entry T (S.next = T), and T follows S in the final chain.
C18_SpliceAfterReference ==
    pc = "arranged" =>
        \A k \in LogEvents("splice") :
            /\ arrLog[k].nx[arrLog[k].s] = arrLog[k].t
            /\ Precedes(ArrangedChain, arrLog[k].s, arrLog[k].t)

\* C18: right after every splice the moved entry T is linked behind ps_temp,
\* the entry that was in front of the reference entry S when the scan of S
\* began (ps_temp.next = T), and T is in front of S, with nothing between
\* them but the entries spliced earlier in the same scan.
C18_SpliceInFrontOfReference ==
    pc = "arranged" =>
        \A k \in LogEvents("splice") :
            LET e == arrLog[k]
                between == Between(e.nx, e.t, e.s, Len(pool))
            IN  /\ e.nx[e.temp] = e.t
                /\ \A m \in 1 .. Len(between) : between[m] \in SplicedEarlier(k)

\* C18 witness: one scan has spliced two entries in front of its reference
\* entry.
C18_Witness ==
    /\ pc = "arranged"
    /\ \E k \in LogEvents("splice") :
           /\ SplicedEarlier(k) # {}
           /\ arrLog[k].nx[arrLog[k].t] # arrLog[k].s

(***************************************************************************)
(* C19: which entries the arranger compares.                               *)
(***************************************************************************)
\* The quadrant indices of a and b are equal or differ by one.
AdjacentQuadrants(a, b) ==
    pool[a].quadrant_index - pool[b].quadrant_index \in {-1, 0, 1}

\* C19: every comparison CheckBoundingBox(S, T) the arranger makes is
\* between entries whose quadrant indices are equal or differ by one, and
\* the entry a splice puts T in front of has a quadrant index equal to that
\* of T or differing from it by one.
C19_AdjacentOnly ==
    pc = "arranged" =>
        /\ \A k \in LogEvents("compare") : AdjacentQuadrants(arrLog[k].s, arrLog[k].t)
        /\ \A k \in LogEvents("splice") :
               /\ AdjacentQuadrants(arrLog[k].s, arrLog[k].t)
               /\ AdjacentQuadrants(arrLog[k].nx[arrLog[k].t], arrLog[k].t)

(***************************************************************************)
(* C20: the dominance test in both directions.                             *)
(***************************************************************************)
\* C20: at no rotation and for no two boxes, touching, identical and flat
\* boxes included, are CheckBoundingBox(S, T) and CheckBoundingBox(T, S)
\* both true.
C20_NoTwoCycle == dominance # <<>> => ~(dominance[1] /\ dominance[2])

(***************************************************************************)
(* C21: the chain after the merge.                                         *)
(***************************************************************************)
\* The chain step 1 of PaintSessionArrange would build now.
ChainAfterMerge == ChainOf(MergedChain(Session, {}))

\* Along chain the quadrant indices do not decrease, and of two entries of
\* one quadrant the one added later comes first.
QuadrantsAscendingLIFO(chain) ==
    \A j \in 1 .. Len(chain), k \in 1 .. Len(chain) :
        j < k =>
            \/ pool[chain[j]].quadrant_index < pool[chain[k]].quadrant_index
            \/ /\ pool[chain[j]].quadrant_index = pool[chain[k]].quadrant_index
               /\ chain[j] > chain[k]

\* C21: right after step 1 of PaintSessionArrange the chain from PaintHead
\* holds every bucketed entry once and nothing else; the quadrant indices
\* along it lie between the back and the front index and do not decrease,
\* and the entries of one quadrant are in LIFO order.
C21_MergeAscendingLIFO ==
    (pc = "generate" /\ QuadrantBackIndex # UINT32_MAX) =>
        /\ IsPermutation(ChainAfterMerge, Bucketed)
        /\ QuadrantsAscendingLIFO(ChainAfterMerge)
        /\ \A k \in 1 .. Len(ChainAfterMerge) :
               /\ QuadrantBackIndex <= pool[ChainAfterMerge[k]].quadrant_index
               /\ pool[ChainAfterMerge[k]].quadrant_index <= QuadrantFrontIndex

\* C21 witness: three entries are bucketed, two of them in one quadrant and
\* the third in another, with empty quadrants in between.
C21_Witness ==
    /\ pc = "generate"
    /\ QuadrantBackIndex # UINT32_MAX
    /\ Len(ChainAfterMerge) = 3
    /\ \E j \in 1 .. 2 :
           pool[ChainAfterMerge[j]].quadrant_index = pool[ChainAfterMerge[j + 1]].quadrant_index
    /\ QuadrantFrontIndex - QuadrantBackIndex >= 2

(***************************************************************************)
(* C22: the quadrant lists.                                                *)
(***************************************************************************)
\* The quadrant the bounds of entry e hash to.
QuadrantOf(e) == PaintQuadrantIndex(pool[e].bounds, CurrentRotation)

\* The primitives whose quadrant is i.
PrimitivesOf(i) == {e \in PaintStructs : QuadrantOf(e) = i}

\* Every entry of chain was added after the entries behind it.
LatestFirst(chain) == \A j \in 1 .. Len(chain) - 1 : chain[j] > chain[j + 1]

\* C22: after any sequence of successful PaintAddImageAsParent calls the
\* list of every quadrant i, read from Quadrants[i] through
\* next_quadrant_ps, holds exactly the primitives whose bounds hash to i,
\* each of them once, the one added last first; a quadrant no primitive
\* hashes to has no list.
C22_BucketListsLIFO ==
    pc = "generate" =>
        /\ \A i \in DOMAIN Quadrants \cup {QuadrantOf(e) : e \in PaintStructs} :
               /\ IsPermutation(QuadrantList(i), PrimitivesOf(i))
               /\ LatestFirst(QuadrantList(i))
        /\ \A e \in PaintStructs : pool[e].quadrant_index = QuadrantOf(e)

\* C22 witness: three successful calls have put two primitives in one
\* quadrant and one in another.
C22_Witness ==
    /\ pc = "generate"
    /\ Len(pool) = 3
    /\ \E i \in DOMAIN Quadrants : Len(QuadrantList(i)) = 2
    /\ \E i \in DOMAIN Quadrants : Len(QuadrantList(i)) = 1

(***************************************************************************)
(* C23: what stays as it is once a primitive has been made.                *)
(***************************************************************************)
\* The paint_structs in the chain or in a quadrant list.
BucketedOrChained == IF pc = "generate" THEN Bucketed ELSE ChainSet

\* Entry e keeps every field but its next link and its flags.
OnlyLinkAndFlagsChange(e) ==
    pool'[e] = [pool[e] EXCEPT !.next_quadrant_ps = pool'[e].next_quadrant_ps,
                               !.quadrant_flags = pool'[e].quadrant_flags]

\* A step keeps the quadrant index and the six bounds of every bucketed
\* primitive; the arrangement changes nothing of a paint_struct but its
\* next_quadrant_ps and its quadrant_flags, and the drawing changes nothing.
BoundsAndQuadrantKept ==
    /\ \A e \in BucketedOrChained :
           /\ pool'[e].bounds = pool[e].bounds
           /\ pool'[e].quadrant_index = pool[e].quadrant_index
    /\ (pc = "generate" /\ pc' = "arranged") =>
           /\ Len(pool') = Len(pool)
           /\ \A e \in PaintStructs : OnlyLinkAndFlagsChange(e)
           /\ \A e \in (1 .. Len(pool)) \ PaintStructs : pool'[e] = pool[e]
    /\ pc = "arranged" => pool' = pool

\* C23: no addition, attach call, PaintSessionArrange or PaintDrawStructs
\* changes the quadrant index or the bounds of a primitive that has been
\* bucketed; the arrangement writes next links and flags only.
C23_BoundsAndQuadrantImmutable == [][BoundsAndQuadrantKept]_vars

\* C23 witness: a session in which a bucketed primitive got a child and an
\* attached entry after it was made has been arranged, with the arranger
\* writing flags and links of two primitives, and drawn.
C23_Witness ==
    /\ pc = "drawn"
    /\ Len(ArrangedChain) >= 2
    /\ \E e \in ChainSet : pool[e].quadrant_flags # UnsetFlags
    /\ \E e \in ChainSet : pool[e].children # NULL \/ pool[e].attached_ps # NULL

(***************************************************************************)
(* C24: the quadrant index as a number.                                    *)
(***************************************************************************)
\* h of the claim: the sum of the origin (x, y), as 16-bit values, rotated,
\* with 0, 0x2000 or 0x4000 added.
RotatedSum(x, y, rotation) ==
    CASE rotation = 0 -> Int16(x) + Int16(y)
      [] rotation = 1 -> Int16(y) - Int16(x) + 8192
      [] rotation = 2 -> 16384 - Int16(x) - Int16(y)
      [] rotation = 3 -> Int16(x) - Int16(y) + 8192

\* clamp(h div 32, 0, MAX_PAINT_QUADRANTS - 1), by cases.
QuadrantOfSum(h) ==
    IF h < 0 THEN 0
    ELSE IF h >= 32 * MAX_PAINT_QUADRANTS THEN MAX_PAINT_QUADRANTS - 1
    ELSE h \div 32

\* C24: every PaintAddImageAsParent call whose image is accepted buckets
\* its primitive, and the primitive's quadrant_index is h div 32 clamped to
\* the table: 0 for a negative h, the last quadrant for an h beyond the
\* table.
C24_QuadrantIndexFormula ==
    /\ pc = "generate" =>
           \A inp \in HashInputs :
               LET r == PaintAddImageAsParent(Session, CurrentRotation, DPI, inp)
               IN  NoPaintStructsAvailable(pool) \/ QuadrantAt(r.s.Quadrants,
                       r.s.pool[r.ret].quadrant_index) = r.ret
    /\ \A e \in Bucketed :
           pool[e].quadrant_index
               = QuadrantOfSum(RotatedSum(pool[e].bounds.x, pool[e].bounds.y, CurrentRotation))

\* C24 witness: a primitive whose h is negative, one whose h is beyond the
\* table, one in between that is no multiple of 32, one whose origin is
\* beyond the 16-bit range.
HashWitness(lo, hi, wrapped) ==
    \E e \in Bucketed :
        LET h == RotatedSum(pool[e].bounds.x, pool[e].bounds.y, CurrentRotation)
        IN  /\ lo <= h
            /\ h <= hi
            /\ wrapped = (Int16(pool[e].bounds.x) # pool[e].bounds.x)

C24_Witness ==
    \/ HashWitness(-31, -1, FALSE) /\ CurrentRotation = 1
    \/ HashWitness(32 * MAX_PAINT_QUADRANTS, 70000, FALSE) /\ CurrentRotation = 2
    \/ HashWitness(33, 32 * MAX_PAINT_QUADRANTS - 1, TRUE) /\ CurrentRotation = 3

(***************************************************************************)
(* C25, C26: the columns of a scan.                                        *)
(***************************************************************************)
\* The calls made to one emitter, in order, as columns.
ColumnsOf(emitter) ==
    LET calls_ == SelectSeq(emitted, LAMBDA c : c.emitter = emitter)
    IN  [k \in 1 .. Len(calls_) |-> <<calls_[k].x, calls_[k].y>>]

TileColumns == {ColumnsOf("tile_element_paint_setup")[k] :
                    k \in 1 .. Len(ColumnsOf("tile_element_paint_setup"))}

SpriteColumns == {ColumnsOf("sprite_paint_setup")[k] :
                      k \in 1 .. Len(ColumnsOf("sprite_paint_setup"))}

\* C25 as stated: a finished scan has passed the same columns to both
\* emitters.
C25_SameColumnsToBothEmitters ==
    scan = "done" => SpriteColumns = TileColumns

\* C25, amended: every column passed to tile_element_paint_setup is passed
\* to sprite_paint_setup by the very next call; sprite_paint_setup gets two
\* more columns in each pass, which tile_element_paint_setup does not get in
\* that pass.
C25_TileColumnsAlsoToSprites ==
    /\ TileColumns \subseteq SpriteColumns
    /\ \A k \in 1 .. Len(emitted) :
           emitted[k].emitter = "tile_element_paint_setup" =>
               /\ k < Len(emitted)
               /\ emitted[k + 1] = [emitted[k] EXCEPT !.emitter = "sprite_paint_setup"]
    /\ Len(ColumnsOf("sprite_paint_setup")) = 2 * Len(ColumnsOf("tile_element_paint_setup"))

\* C25 witness: a finished scan at each rotation, with columns only the
\* sprite emitter has got.
C25_Witness ==
    /\ scan = "done"
    /\ CurrentRotation = 2
    /\ TileColumns # {}
    /\ SpriteColumns \ TileColumns # {}

\* The passes the claim counts for a clip rectangle.
StaircaseSteps == (DPI.height + 2128) \div 32

\* C26: a scan makes (height + 2128) >> 5 passes and stops; every column it
\* passes on is a multiple of 32 on both axes; neither emitter gets a column
\* twice.
C26_StaircaseOnce ==
    /\ scan = "loop" => Len(emitted) = 6 * (StaircaseSteps - num_vertical_quadrants)
    /\ scan = "done" => Len(emitted) = 6 * StaircaseSteps
    /\ \A k \in 1 .. Len(emitted) : emitted[k].x % 32 = 0 /\ emitted[k].y % 32 = 0
    /\ Cardinality(TileColumns) = Len(ColumnsOf("tile_element_paint_setup"))
    /\ Cardinality(SpriteColumns) = Len(ColumnsOf("sprite_paint_setup"))

\* C26 witness: a finished scan of the clip rectangle that is off the grid.
C26_Witness ==
    /\ scan = "done"
    /\ CurrentRotation = 3
    /\ DPI.height = 37
    /\ Len(emitted) = 6 * 67

(***************************************************************************)
(* C27: what PaintDrawStructs draws, and in which order.                   *)
(***************************************************************************)
\* The entries from e on through the given link, at most n of them.
RECURSIVE Follow(_, _, _)
Follow(e, link, n) ==
    IF e = NULL \/ n = 0 THEN <<>>
    ELSE <<e>> \o Follow(pool[e][link], link, n - 1)

\* e, its child, the child's child, ...
Descent(e) == Follow(e, "children", Len(pool) + 1)

\* The attached entries of e from its head on.
AttachedChain(e) == Follow(pool[e].attached_ps, "next", Len(pool) + 1)

\* What a blit draws and for which primitive.
BlitKey(kind, entry, owner) == <<kind, entry, owner>>

BlitKeys == [k \in 1 .. Len(blits) |-> BlitKey(blits[k].kind, blits[k].entry, blits[k].owner)]

\* The descent of e, each primitive once, and then the attached entries of
\* the last of them, the one without a child.
DescentKeys(e) ==
    LET d == Descent(e)
        last == d[Len(d)]
        a == AttachedChain(last)
    IN  [k \in 1 .. Len(d) |-> BlitKey("ps", d[k], d[k])]
          \o [k \in 1 .. Len(a) |-> BlitKey("attached", a[k], last)]

RECURSIVE ChainKeys(_)
ChainKeys(chain) ==
    IF chain = <<>> THEN <<>> ELSE DescentKeys(Head(chain)) \o ChainKeys(Tail(chain))

\* The times entry e has been drawn.
TimesDrawn(e) == Cardinality({k \in 1 .. Len(blits) : blits[k].entry = e})

\* C27: PaintDrawStructs ends, and draws the primitives of the arranged
\* chain in chain order, each followed by its descent through children and
\* then, for the primitive of the descent that has no child, by its attached
\* entries in chain order; a primitive of the chain or of a descent and an
\* attached entry of a childless one is drawn once, the attached entries of
\* a primitive with a child are not drawn.
C27_DrawsChainDescentAttached ==
    pc = "drawn" =>
        /\ \A k \in 1 .. Len(blits) : blits[k].kind # "timeout"
        /\ BlitKeys = ChainKeys(ArrangedChain)
        /\ \A e \in ChainSet : TimesDrawn(e) = 1
        /\ \A e \in PaintStructs :
               TimesDrawn(e) = 1 =>
                   \A a \in 1 .. Len(pool) :
                       (\E k \in 1 .. Len(AttachedChain(e)) : AttachedChain(e)[k] = a) =>
                           TimesDrawn(a) = (IF pool[e].children = NULL THEN 1 ELSE 0)

\* C27 witness: a drawn primitive with a child and with an attached entry
\* that has not been drawn, and the child drawn right after it.
C27_Witness ==
    /\ pc = "drawn"
    /\ \E e \in ChainSet :
           /\ pool[e].children # NULL
           /\ pool[e].attached_ps # NULL
           /\ TimesDrawn(pool[e].attached_ps) = 0
           /\ TimesDrawn(pool[e].children) = 1

(***************************************************************************)
(* C28: where an attached entry is drawn.                                  *)
(***************************************************************************)
\* The blit of primitive e.
BlitOf(e) == blits[CHOOSE k \in 1 .. Len(blits) : blits[k].kind = "ps" /\ blits[k].entry = e]

\* C28: every attached entry is drawn at the position its owner has been
\* drawn at plus the entry's own x and y, at every zoom level and for every
\* sprite type of the owner.
C28_AttachedRelativeToDrawnOwner ==
    pc = "drawn" =>
        \A k \in 1 .. Len(blits) :
            blits[k].kind = "attached" =>
                /\ blits[k].x = BlitOf(blits[k].owner).x + pool[blits[k].entry].x
                /\ blits[k].y = BlitOf(blits[k].owner).y + pool[blits[k].entry].y

(***************************************************************************)
(* C29: the attached entries of one root.                                  *)
(***************************************************************************)
\* The attached entries the attach calls have made; each call that returns
\* true has made one.
AttachedEntries == {i \in 1 .. Len(pool) : pool[i].kind = "attached"}

\* The entries reachable from the attached_ps of primitive e through next.
ReachableAttached(e) == {AttachedChain(e)[k] : k \in 1 .. Len(AttachedChain(e))}

\* C29: after one root and attach calls of both kinds in any mix, every
\* attached entry made is reachable from the root's attached_ps through
\* next, the chain has no cycle, and it is as long as the number of calls
\* that returned true.
C29_NoAttachedLost ==
    (pool # <<>> /\ pool[1].kind = "ps") =>
        /\ ReachableAttached(1) = AttachedEntries
        /\ Len(AttachedChain(1)) = Cardinality(AttachedEntries)

(***************************************************************************)
(* C30: the text chain.                                                    *)
(***************************************************************************)
\* The text entries in the order PaintFloatingMoneyEffect has made them.
TextEntries == SelectSeq([i \in 1 .. Len(pool) |-> i], LAMBDA i : pool[i].kind = "string")

\* C30: PaintDrawMoneyStructs, called with the head of the text chain, draws
\* the text entries in the order they were made, each once, each with its
\* string and at its position, and ends at the entry whose next is null;
\* PaintFloatingMoneyEffect on a full pool leaves the session as it is.
C30_TextsInInsertionOrder ==
    /\ texts # <<>> =>
           /\ Len(texts) = Len(TextEntries)
           /\ \A k \in 1 .. Len(texts) :
                  /\ texts[k].entry = TextEntries[k]
                  /\ texts[k].string_id = pool[TextEntries[k]].image_id
                  /\ texts[k].x = pool[TextEntries[k]].x
                  /\ texts[k].y = pool[TextEntries[k]].y
           /\ pool[texts[Len(texts)].entry].next = NULL
    /\ (pc = "generate" /\ Len(pool) >= capacity) =>
           \A inp \in MoneyDrawInputs : PaintFloatingMoneyEffect(Session, inp).s = Session

\* C30 witness: two different texts made with a root between them and drawn
\* in that order, in a pool that had been filled.
C30_Witness ==
    /\ Len(texts) = 2
    /\ texts[1].string_id # texts[2].string_id
    /\ texts[2].entry = texts[1].entry + 2
    /\ Len(pool) = capacity

(***************************************************************************)
(* C31: the objective properties, set and then read.                       *)
(***************************************************************************)
\* The objective types under which the getter of a property reads its global.
TypesRead(property) ==
    CASE property = "guests" -> {OBJECTIVE_GUESTS_BY, OBJECTIVE_GUESTS_AND_RATING}
      [] property = "year" -> {OBJECTIVE_GUESTS_BY, OBJECTIVE_PARK_VALUE_BY}
      [] property = "length" -> {OBJECTIVE_10_ROLLERCOASTERS_LENGTH}
      [] property = "excitement" -> {OBJECTIVE_FINISH_5_ROLLERCOASTERS}
      [] property = "parkValue" -> {OBJECTIVE_PARK_VALUE_BY, OBJECTIVE_REPLAY_LOAN_AND_PARK_VALUE}
      [] property = "monthlyIncome" -> {OBJECTIVE_MONTHLY_RIDE_INCOME, OBJECTIVE_MONTHLY_FOOD_INCOME}

\* What a script reads from a property.
Get(property, o) ==
    CASE property = "guests" -> guests_get(o)
      [] property = "year" -> year_get(o)
      [] property = "length" -> length_get(o)
      [] property = "excitement" -> excitement_get(o)
      [] property = "parkValue" -> parkValue_get(o)
      [] property = "monthlyIncome" -> monthlyIncome_get(o)

\* A property set to its value by the last call, which did not throw, reads
\* as that value under the types its getter reads; under the other types the
\* call has stored nothing.
RoundTrip(property) ==
    /\ (/\ lastSet.property = property
        /\ ~lastSet.threw
        /\ gScenarioObjectiveType \in TypesRead(property)) =>
           Get(property, Objective) = lastSet.value
    /\ (/\ lastSet.property = property
        /\ gScenarioObjectiveType \notin TypesRead(property)) =>
           Objective = lastSet.before

\* C31: with the game state mutable and the objective type monthlyRideIncome
\* or monthlyFoodIncome, monthlyIncome reads as the value it has just been
\* set to; and for every objective property the setter stores to the global
\* under exactly the objective types under which the getter reads it.
C31_ObjectiveRoundTrip ==
    \A property \in {"guests", "year", "length", "excitement", "parkValue", "monthlyIncome"} :
        RoundTrip(property)

====
